---- MODULE Spec2Model ----
(***************************************************************************)
(* A model of the SysY compiler: the RV32 back-end (frame layout, register *)
(* pool, long-offset loads and stores, call lowering), the dead-code pass  *)
(* and the parts of the front-end that build the IR the pass works on.     *)
(***************************************************************************)
EXTENDS Integers, Sequences, FiniteSets, TLC

(***************************************************************************)
(* Generic helpers                                                         *)
(***************************************************************************)
Max(a, b) == IF a >= b THEN a ELSE b

(***************************************************************************)
(* backend/register.rs                                                     *)
(***************************************************************************)
Temps == {"t0", "t1", "t2", "t3", "t4", "t5", "t6"}
ArgRegs == {"a0", "a1", "a2", "a3", "a4", "a5", "a6", "a7"}
RVRegister == {"ra", "sp", "x0"} \cup ArgRegs \cup Temps

is_temp(r) == r \in Temps

get_arg_reg(index) ==
    CASE index = 0 -> "a0" [] index = 1 -> "a1" [] index = 2 -> "a2"
      [] index = 3 -> "a3" [] index = 4 -> "a4" [] index = 5 -> "a5"
      [] index = 6 -> "a6" [] index = 7 -> "a7"

new_temp_pool == Temps

\* A pool that may also hand out an argument register as scratch.
pool_next_with_args(avail) == avail \cup ArgRegs

\* RVRegisterPool::next takes `avail.iter().next()` of a HashSet: which
\* member comes first is not fixed, so every available register is a
\* possible outcome.
pool_next(avail) == avail

\* A release that takes any register back.
pool_release_of_any_register(avail, register) == avail \cup {register}

\* RVRegisterPool::release
pool_release(avail, register) ==
    IF is_temp(register) THEN avail \cup {register} ELSE avail

(***************************************************************************)
(* backend/instruction.rs                                                  *)
(***************************************************************************)
Addi(rd, rs, imm) == [op |-> "addi", rd |-> rd, rs |-> rs, imm |-> imm]
Li(rd, imm)       == [op |-> "li", rd |-> rd, imm |-> imm]
Lw(rd, rs, imm)   == [op |-> "lw", rd |-> rd, rs |-> rs, imm |-> imm]
\* Sw { rs, rd, imm } prints `sw rs, imm(rd)`: rs is stored, rd is the base.
Sw(rs, rd, imm)   == [op |-> "sw", rs |-> rs, rd |-> rd, imm |-> imm]
Mv(rd, rs)        == [op |-> "mv", rd |-> rd, rs |-> rs]
Add(rd, rs1, rs2) == [op |-> "add", rd |-> rd, rs1 |-> rs1, rs2 |-> rs2]
Sgt(rd, rs1, rs2) == [op |-> "sgt", rd |-> rd, rs1 |-> rs1, rs2 |-> rs2]
Seqz(rd, rs)      == [op |-> "seqz", rd |-> rd, rs |-> rs]
Snez(rd, rs)      == [op |-> "snez", rd |-> rd, rs |-> rs]
Slt(rd, rs1, rs2) == [op |-> "slt", rd |-> rd, rs1 |-> rs1, rs2 |-> rs2]
Xor(rd, rs1, rs2) == [op |-> "xor", rd |-> rd, rs1 |-> rs1, rs2 |-> rs2]
\* Sub, Mul, Div, Rem, And, Or: rd, rs1, rs2 as in Add
Arith3(op, rd, rs1, rs2) == [op |-> op, rd |-> rd, rs1 |-> rs1, rs2 |-> rs2]
La(rd, label)     == [op |-> "la", rd |-> rd, label |-> label]
Bnez(rs, label)   == [op |-> "bnez", rs |-> rs, label |-> label]
J(label)          == [op |-> "j", label |-> label]
CallI(label)      == [op |-> "call", label |-> label]
RetI              == [op |-> "ret"]

(***************************************************************************)
(* backend/environment.rs: long-offset helpers                             *)
(***************************************************************************)
\* 1 << 11, the bound of a 12-bit signed immediate.
ImmLimit == 2048

FitsImm12(imm) == imm >= -ImmLimit /\ imm < ImmLimit

\* generate_sw with the scratch register hard-wired to t0 instead of being
\* taken from the pool.
generate_sw_fixed_temp(avail, rs, rd, imm) ==
    IF FitsImm12(imm)
    THEN {[insts |-> <<Sw(rs, rd, imm)>>, avail |-> avail]}
    ELSE {[insts |-> <<Li("t0", imm), Add("t0", "t0", rd), Sw(rs, "t0", 0)>>,
           avail |-> avail]}

\* generate_sw: the set of possible (instructions, pool afterwards).
generate_sw(avail, rs, rd, imm) ==
    IF FitsImm12(imm)
    THEN {[insts |-> <<Sw(rs, rd, imm)>>, avail |-> avail]}
    ELSE {[insts |-> <<Li(temp, imm), Add(temp, temp, rd), Sw(rs, temp, 0)>>,
           avail |-> pool_release(avail \ {temp}, temp)] : temp \in pool_next(avail)}

generate_lw(avail, rd, rs, imm) ==
    IF FitsImm12(imm)
    THEN {[insts |-> <<Lw(rd, rs, imm)>>, avail |-> avail]}
    ELSE {[insts |-> <<Li(temp, imm), Add(temp, temp, rs), Lw(rd, temp, 0)>>,
           avail |-> pool_release(avail \ {temp}, temp)] : temp \in pool_next(avail)}

generate_addi(avail, rd, rs, imm) ==
    IF FitsImm12(imm)
    THEN {[insts |-> <<Addi(rd, rs, imm)>>, avail |-> avail]}
    ELSE {[insts |-> <<Li(temp, imm), Add(rd, rs, temp)>>,
           avail |-> pool_release(avail \ {temp}, temp)] : temp \in pool_next(avail)}

(***************************************************************************)
(* RV32 semantics of the emitted instructions, for claims about their net  *)
(* effect.  A value is a pair <<tag, n>>: <<"int", n>> a known integer,    *)
(* <<r, 0>> the unknown initial content of register r, <<"mem", a>> the    *)
(* unknown initial content of the word at address a.  Addresses stay far   *)
(* from the ends of the 32-bit range, so address arithmetic never wraps.   *)
(***************************************************************************)
IntV(n) == <<"int", n>>
IsInt(v) == v[1] = "int"
IsLabel(v) == v[1] = "la"
\* The content of a register the pool has taken back.
Junk == <<"junk", 0>>
\* The result of arithmetic on a value that is not a known integer.
Opaque == <<"opaque", 0>>

InitRegs(sp) ==
    [r \in RVRegister |->
        IF r = "sp" THEN IntV(sp) ELSE IF r = "x0" THEN IntV(0) ELSE <<r, 0>>]

\* A machine: the register file, the words written so far (stack words by
\* address, global words by label), and whether an access went through an
\* address that is neither a known integer nor a label.
Machine(sp) == [regs |-> InitRegs(sp), mem |-> <<>>, glob |-> <<>>, wild |-> FALSE]

RegRead(mc, r) == IF r = "x0" THEN IntV(0) ELSE mc.regs[r]
RegWrite(mc, r, v) == IF r = "x0" THEN mc ELSE [mc EXCEPT !.regs[r] = v]
MemRead(mc, a) == IF a \in DOMAIN mc.mem THEN mc.mem[a] ELSE <<"mem", a>>
MemWrite(mc, a, v) ==
    [mc EXCEPT !.mem = [x \in (DOMAIN mc.mem) \cup {a} |->
                           IF x = a THEN v ELSE mc.mem[x]]]
GlobRead(mc, g) == IF g \in DOMAIN mc.glob THEN mc.glob[g] ELSE <<"glob", g>>
GlobWrite(mc, g, v) ==
    [mc EXCEPT !.glob = [x \in (DOMAIN mc.glob) \cup {g} |->
                            IF x = g THEN v ELSE mc.glob[x]]]

\* The element of a one-element set.  `The({ F(x) : x \in {v} })` is
\* `LET x == v IN F(x)` with v taken by value, as Rust takes it: v is
\* evaluated once, however often F uses x.
The(S) == CHOOSE x \in S : TRUE

\* `and` and `or` of the machine on two's-complement words: halving rounds
\* down, so the bits of a negative number end in -1 (all ones)
RECURSIVE BitAnd(_, _)
BitAnd(a0, b0) ==
    The({ CASE a = 0 \/ b = 0 -> 0
            [] a = -1 -> b
            [] b = -1 -> a
            [] OTHER -> (IF a % 2 = 1 /\ b % 2 = 1 THEN 1 ELSE 0)
                            + 2 * BitAnd(a \div 2, b \div 2)
          : a \in {a0}, b \in {b0} })

RECURSIVE BitOr(_, _)
BitOr(a0, b0) ==
    The({ CASE a = 0 -> b
            [] b = 0 -> a
            [] a = -1 \/ b = -1 -> -1
            [] OTHER -> (IF a % 2 = 1 \/ b % 2 = 1 THEN 1 ELSE 0)
                            + 2 * BitOr(a \div 2, b \div 2)
          : a \in {a0}, b \in {b0} })

\* `xor` of the machine: the bits set in one operand only.
BitXor(a, b) == BitOr(a, b) - BitAnd(a, b)

Plus(x, y) == x + y
Greater(x, y) == IF x > y THEN 1 ELSE 0
IsZero(x, y) == IF x = 0 THEN 1 ELSE 0
Arith(a, b, f) ==
    IF IsInt(a) /\ IsInt(b)
    THEN IntV(CASE f = "add" -> Plus(a[2], b[2])
                [] f = "sgt" -> Greater(a[2], b[2])
                [] f = "seqz" -> IsZero(a[2], b[2])
                [] f = "snez" -> 1 - IsZero(a[2], b[2])
                [] f = "slt" -> Greater(b[2], a[2])
                [] f = "xor" -> BitXor(a[2], b[2])
                [] f = "and" -> BitAnd(a[2], b[2])
                [] f = "or" -> BitOr(a[2], b[2]))
    ELSE Opaque

Exec(mc, i) ==
    CASE i.op = "li" -> RegWrite(mc, i.rd, IntV(i.imm))
      [] i.op = "la" -> RegWrite(mc, i.rd, <<"la", i.label[2]>>)
      [] i.op = "mv" -> RegWrite(mc, i.rd, RegRead(mc, i.rs))
      [] i.op = "addi" ->
            RegWrite(mc, i.rd, Arith(RegRead(mc, i.rs), IntV(i.imm), "add"))
      [] i.op = "add" ->
            RegWrite(mc, i.rd, Arith(RegRead(mc, i.rs1), RegRead(mc, i.rs2), "add"))
      [] i.op = "sgt" ->
            RegWrite(mc, i.rd, Arith(RegRead(mc, i.rs1), RegRead(mc, i.rs2), "sgt"))
      [] i.op = "seqz" ->
            RegWrite(mc, i.rd, Arith(RegRead(mc, i.rs), IntV(0), "seqz"))
      [] i.op = "snez" ->
            RegWrite(mc, i.rd, Arith(RegRead(mc, i.rs), IntV(0), "snez"))
      [] i.op \in {"slt", "xor", "and", "or"} ->
            RegWrite(mc, i.rd, Arith(RegRead(mc, i.rs1), RegRead(mc, i.rs2), i.op))
      \* the other arithmetic leaves a number the model does not follow
      [] i.op \in {"sub", "mul", "div", "rem"} -> RegWrite(mc, i.rd, Opaque)
      [] i.op = "lw" ->
            LET a == RegRead(mc, i.rs) IN
            IF IsInt(a) THEN RegWrite(mc, i.rd, MemRead(mc, a[2] + i.imm))
            ELSE IF IsLabel(a) /\ i.imm = 0
                 THEN RegWrite(mc, i.rd, GlobRead(mc, a[2]))
                 ELSE [RegWrite(mc, i.rd, Junk) EXCEPT !.wild = TRUE]
      [] i.op = "sw" ->
            LET a == RegRead(mc, i.rd) IN
            IF IsInt(a) THEN MemWrite(mc, a[2] + i.imm, RegRead(mc, i.rs))
            ELSE IF IsLabel(a) /\ i.imm = 0
                 THEN GlobWrite(mc, a[2], RegRead(mc, i.rs))
                 ELSE [mc EXCEPT !.wild = TRUE]
      \* the callee returns its result in a0 and may have changed every
      \* other caller-saved register
      [] i.op = "call" ->
            [mc EXCEPT !.regs = [r \in RVRegister |->
                IF r = "a0" THEN <<"ret", 0>>
                ELSE IF r \in ArgRegs \cup Temps \cup {"ra"} THEN Junk
                ELSE mc.regs[r]]]
      [] OTHER -> mc

RECURSIVE Run(_, _)
Run(mc, insts) ==
    IF insts = <<>> THEN mc ELSE Run(Exec(mc, Head(insts)), Tail(insts))

\* The registers in the pool hold nothing the code may rely on.
Junked(mc, avail) ==
    [mc EXCEPT !.regs = [r \in RVRegister |-> IF r \in avail THEN Junk ELSE mc.regs[r]]]

(***************************************************************************)
(* The IR handed to the back-end.  A function is its parameter count and   *)
(* its layout: a sequence of basic blocks, each a sequence of instructions.*)
(* An operand is <<"int", n>> (Integer), <<"arg", i>> (FuncArgRef),        *)
(* <<"inst", j>> (the j-th instruction of the function, counted over the   *)
(* whole layout) or <<"global", k>> (the k-th GlobalAlloc of the program). *)
(***************************************************************************)
MaxBody == 2          \* instructions after the parameter stores
ParamCounts == {0, 10}
ArgCounts == {0, 1, 9, 11}
IntOperands == {<<"int", 0>>, <<"int", 7>>}
BinaryOps == {"Add", "Le"}

IsTerminatorKind(k) == k \in {"branch", "jump", "return"}
HasResult == {"load", "binary", "call"}

\* What the front-end emits on function entry for each parameter:
\* an Alloc and a Store of the FuncArgRef into it.
RECURSIVE ParamPrefix(_)
ParamPrefix(np) ==
    IF np = 0 THEN <<>>
    ELSE ParamPrefix(np - 1) \o
         << [kind |-> "alloc"],
            [kind |-> "store", value |-> <<"arg", np - 1>>,
             dest |-> <<"inst", 2 * np - 1>>] >>

\* The latest instruction of p whose kind is one of kinds, as an operand.
LastInst(p, kinds) ==
    LET Js == {k \in 1..Len(p) : p[k].kind \in kinds}
    IN  IF Js = {} THEN {}
        ELSE {<<"inst", CHOOSE j \in Js : \A k \in Js : k <= j>>}

ResultsOf(p) == LastInst(p, HasResult)
AllocsOf(p) == LastInst(p, {"alloc"}) \cup {<<"global", 0>>}
ValuesOf(p) == IntOperands \cup ResultsOf(p)

\* Argument lists: n arguments alternating between two operands.
ArgLists(p) ==
    {[i \in 1..n |-> IF i % 2 = 1 THEN v1 ELSE v2] :
        n \in ArgCounts, v1 \in ValuesOf(p), v2 \in ValuesOf(p)}

\* The instructions that may follow the instructions p.  Branch targets are
\* block numbers; block 1 (the function entry) is never a target.
NextInsts(p) ==
    {[kind |-> "alloc"]}
    \cup {[kind |-> "load", src |-> a] : a \in AllocsOf(p)}
    \cup {[kind |-> "store", value |-> v, dest |-> a] :
             v \in ValuesOf(p), a \in AllocsOf(p)}
    \cup {[kind |-> "binary", bop |-> o, lhs |-> l, rhs |-> r] :
             o \in BinaryOps, l \in ValuesOf(p), r \in ValuesOf(p)}
    \cup {[kind |-> "call", callee |-> "g", args |-> a] : a \in ArgLists(p)}
    \cup {[kind |-> "return", value |-> v] : v \in ValuesOf(p) \cup {<<"none", 0>>}}
    \cup {[kind |-> "jump", target |-> 2]}
    \cup {[kind |-> "branch", cond |-> v, true_bb |-> 2, false_bb |-> fb] :
             v \in ValuesOf(p), fb \in {2, 3}}

RECURSIVE Extensions(_, _)
Extensions(p, n) ==
    IF n = 0 THEN {p}
    ELSE {p} \cup UNION {Extensions(Append(p, i), n - 1) : i \in NextInsts(p)}

\* The layout: a block ends with its terminator (the last block may lack one).
RECURSIVE SplitBlocks(_, _, _)
SplitBlocks(p, j, cur) ==
    IF j > Len(p) THEN <<cur>>
    ELSE LET i == p[j] @@ [id |-> j]
         IN  IF IsTerminatorKind(p[j].kind)
             THEN <<Append(cur, i)>> \o
                  (IF j = Len(p) THEN <<>> ELSE SplitBlocks(p, j + 1, <<>>))
             ELSE SplitBlocks(p, j + 1, Append(cur, i))

TargetsOf(i) ==
    CASE i.kind = "jump" -> {i.target}
      [] i.kind = "branch" -> {i.true_bb, i.false_bb}
      [] OTHER -> {}

\* Every branch target is a block of the layout.
WellFormed(bbs) ==
    \A b \in 1..Len(bbs) : \A k \in 1..Len(bbs[b]) :
        \A t \in TargetsOf(bbs[b][k]) : t <= Len(bbs)

IRFunctions ==
    UNION {{[name |-> IF np = 0 THEN "main" ELSE "f", np |-> np, bbs |-> l] :
              l \in {bbs \in {SplitBlocks(q, 1, <<>>) :
                                 q \in Extensions(ParamPrefix(np), MaxBody)} :
                        WellFormed(bbs)}} :
           np \in ParamCounts}

(***************************************************************************)
(* State.  The model has one group of variables per part of the compiler;  *)
(* a specification moves one group and holds the others at their idle      *)
(* values.                                                                 *)
(***************************************************************************)
VARIABLES
    \* one call of generate_lw / generate_sw / generate_addi
    ls_pc,      \* "call": arguments chosen; "ret": the helper has returned
    ls_fn,      \* which helper ran: "lw", "sw", "addi" ("none" before)
    ls_reg,     \* the data register (rd of generate_lw, rs of generate_sw)
    ls_imm,     \* the offset
    ls_sp,      \* the value of sp when the emitted code runs
    ls_avail,   \* env.register_pool.avail
    ls_insts,   \* the Vec<Instruction> returned
    \* the back-end lowering of one function (FunctionData::generate)
    func,            \* the IR function being lowered
    call_graph,      \* env.analysis_result.call_graph.graph
    prologue_info,   \* the local prologue_info of generate
    env,             \* the AsmEnvironment of the function
    target,          \* the AsmFunction being filled
    bb,              \* the AsmBasicBlock being filled
    pc,              \* where generate stands in the layout
    m,               \* the machine running the body emitted so far
    m_call,          \* m as it was when the current Call began
    \* the front-end and the dead-code pass on one function
    ast,             \* the FuncDef
    ir,              \* the function's IR (layout, data-flow graph) and the
                     \* front-end's tables
    dce_pc,          \* where the front-end and the pass stand
    pass,            \* the DeadCodeEliminationPass: its terminators
    sweep,           \* the locals of sweep: worklist, bb_worklist, bb_cursor
    runs,            \* how many times the pass has run on the function
    ir_before,       \* ir when the current run began
    ir_once,         \* ir after the first run
    \* a lowered function being run
    sc_prog,         \* the FuncDef
    sc_code,         \* its FunctionData
    sc_status,       \* "source", "rejected", "run", "returned"
    sc_bb,           \* the block being executed
    sc_ip,           \* the position in it
    sc_vals,         \* the results of the instructions executed
    sc_mem,          \* the contents of the slots stored to
    sc_visited,      \* the blocks entered
    sc_calls,        \* the calls made, each <<callee, result>>
    sc_result        \* the value returned

lsVars == <<ls_pc, ls_fn, ls_reg, ls_imm, ls_sp, ls_avail, ls_insts>>
asmVars == <<func, call_graph, prologue_info, env, target, bb, pc, m, m_call>>
dceVars == <<ast, ir, dce_pc, pass, sweep, runs, ir_before, ir_once>>
scVars == <<sc_prog, sc_code, sc_status, sc_bb, sc_ip, sc_vals, sc_mem, sc_visited,
            sc_calls, sc_result>>
VARIABLES
    \* a constant declared (`const int k = E;`), then returned and run
    ce_pc,   \* "source", "declared", "failed", "aborted", "run", "returned"
    ce_def,   \* the ConstDef: its name x and its expression e
    ce_h,   \* the tables and the IR of the function
    ce_e,   \* the IREnvironment
    ce_eval,   \* what try_const_eval gave
    ce_ip,   \* the position in the entry block when the function runs
    ce_vals,   \* the results of the instructions executed
    ce_result   \* the value returned

ceVars == <<ce_pc, ce_def, ce_h, ce_e, ce_eval, ce_ip, ce_vals, ce_result>>
VARIABLES
    \* symbol tables bound to, looked up in, entered and left
    sym_h,   \* the NestedSymbolTables: scope id -> (parent, entries)
    sym_stack,   \* the environments in use, innermost last: the scope of each and, for one that waits for an inner scope to end, what its names meant when it began to wait
    sym_last   \* the last operation, its arguments, its result and the tables before it

symVars == <<sym_h, sym_stack, sym_last>>
VARIABLES
    \* one NameGenerator and the labels it has handed out
    ng_counter,   \* NameGenerator.counter
    ng_log   \* the calls made, in order: the function, its prefixes, the labels it returned

ngVars == <<ng_counter, ng_log>>
VARIABLES
    \* one RVRegisterPool
    rp_avail,   \* RVRegisterPool.avail
    rp_out,   \* the registers handed out by next and not released since
    rp_last   \* the last call, its argument or result, and avail and rp_out before it

rpVars == <<rp_avail, rp_out, rp_last>>
VARIABLES
    \* frontend/generate_ir.rs, a function lowered one call of generate_ir at a time
    fe_pc,   \* "idle", "source", "lowering", "done" or "rejected"
    fe_f,   \* the FuncDef being lowered
    fe_h,   \* the program, the symbol tables and the name counter
    fe_envs,   \* the IREnvironment objects alive, oldest first
    fe_stack,   \* the calls of generate_ir in progress, innermost last
    fe_last   \* the step just taken and the state it began in

feVars == <<fe_pc, fe_f, fe_h, fe_envs, fe_stack, fe_last>>
VARIABLES
    \* The frame of a function, estimated and accumulated
    fr   \* the frame of the lowered function: [estimate, stack_size, panicked], <<>> before

frVars == <<fr>>
VARIABLES
    \* the emitted text of a compilation unit being run
    em_pc,   \* "source", "rejected", "run", "returned", "fell off the end", "bad label"
    em_prog,   \* the FuncDefs of the compilation unit, in order
    em_ir,   \* their FunctionData
    em_asm,   \* the AsmFunctions emitted for them
    em_at,   \* where the processor stands: function, block, position in the block
    em_hist   \* what it has executed: prologues, returns (mv a0), epilogues, other instructions after a return

emVars == <<em_pc, em_prog, em_ir, em_asm, em_at, em_hist>>
VARIABLES
    \* one Binary lowered and run
    cmp_pc,   \* "operands", "lhs", "rhs", "done"
    cmp_op,   \* the BinaryOp
    cmp_lhs,   \* the storage and the value of the left operand
    cmp_rhs,   \* the storage and the value of the right operand
    cmp_avail,   \* env.register_pool.avail
    cmp_rs,   \* the registers load_data gave, then rd
    cmp_m   \* the machine running the instructions

cmpVars == <<cmp_pc, cmp_op, cmp_lhs, cmp_rhs, cmp_avail, cmp_rs, cmp_m>>
VARIABLES
    \* the temporaries during the lowering of one instruction
    tp_pc,   \* "run", "done", "panic" (the pool was empty)
    tp_inst,   \* the IR instruction: its kind and the storages of its operands and of its result
    tp_step,   \* how many steps of its lowering are done
    tp_avail,   \* env.register_pool.avail
    tp_held   \* the registers the steps obtained, in order

tpVars == <<tp_pc, tp_inst, tp_step, tp_avail, tp_held>>
VARIABLES
    \* One Binary lowered twice, each time with a new pool of temporaries.
    dt_pc,   \* "first", "second", "done": which lowering is next
    dt_inst,   \* the Binary lowered: its operator and the storages of its operands and of its result
    dt_first,   \* the instructions of the first lowering
    dt_second   \* the instructions of the second lowering

dtVars == <<dt_pc, dt_inst, dt_first, dt_second>>
vars == <<lsVars, asmVars, dceVars, scVars, ceVars, symVars, ngVars, rpVars, feVars, frVars, emVars, cmpVars, tpVars, dtVars>>
\* what a specification of one group leaves alone
notLs == <<asmVars, dceVars, scVars, ceVars, symVars, ngVars, rpVars, feVars, frVars, emVars, cmpVars, tpVars, dtVars>>
notAsm == <<lsVars, dceVars, scVars, ceVars, symVars, ngVars, rpVars, feVars, frVars, emVars, cmpVars, tpVars, dtVars>>
notDce == <<lsVars, asmVars, scVars, ceVars, symVars, ngVars, rpVars, feVars, frVars, emVars, cmpVars, tpVars, dtVars>>
notSc == <<lsVars, asmVars, dceVars, ceVars, symVars, ngVars, rpVars, feVars, frVars, emVars, cmpVars, tpVars, dtVars>>
notCe == <<lsVars, asmVars, dceVars, scVars, symVars, ngVars, rpVars, feVars, frVars, emVars, cmpVars, tpVars, dtVars>>
notSym == <<lsVars, asmVars, dceVars, scVars, ceVars, ngVars, rpVars, feVars, frVars, emVars, cmpVars, tpVars, dtVars>>
notNg == <<lsVars, asmVars, dceVars, scVars, ceVars, symVars, rpVars, feVars, frVars, emVars, cmpVars, tpVars, dtVars>>
notRp == <<lsVars, asmVars, dceVars, scVars, ceVars, symVars, ngVars, feVars, frVars, emVars, cmpVars, tpVars, dtVars>>
notFe == <<lsVars, asmVars, dceVars, scVars, ceVars, symVars, ngVars, rpVars, frVars, emVars, cmpVars, tpVars, dtVars>>
notFr == <<lsVars, asmVars, dceVars, scVars, ceVars, symVars, ngVars, rpVars, feVars, emVars, cmpVars, tpVars, dtVars>>
notEm == <<lsVars, asmVars, dceVars, scVars, ceVars, symVars, ngVars, rpVars, feVars, frVars, cmpVars, tpVars, dtVars>>
notCmp == <<lsVars, asmVars, dceVars, scVars, ceVars, symVars, ngVars, rpVars, feVars, frVars, emVars, tpVars, dtVars>>
notTp == <<lsVars, asmVars, dceVars, scVars, ceVars, symVars, ngVars, rpVars, feVars, frVars, emVars, cmpVars, dtVars>>
notDt == <<lsVars, asmVars, dceVars, scVars, ceVars, symVars, ngVars, rpVars, feVars, frVars, emVars, cmpVars, tpVars>>

LsIdle ==
    /\ ls_pc = "idle" /\ ls_fn = "none" /\ ls_reg = "x0" /\ ls_imm = 0
    /\ ls_sp = 0 /\ ls_avail = {} /\ ls_insts = <<>>

AsmIdle ==
    /\ func = <<>> /\ call_graph = <<>> /\ prologue_info = <<>> /\ env = <<>>
    /\ target = <<>> /\ bb = <<>> /\ pc = [at |-> "idle"] /\ m = <<>>
    /\ m_call = <<>>

DceIdle ==
    /\ ast = <<>> /\ ir = <<>> /\ dce_pc = "idle" /\ pass = <<>> /\ sweep = <<>>
    /\ runs = 0 /\ ir_before = <<>> /\ ir_once = <<>>

ScIdle ==
    /\ sc_prog = <<>> /\ sc_code = <<>> /\ sc_status = "idle" /\ sc_bb = 0
    /\ sc_ip = 0 /\ sc_vals = <<>> /\ sc_mem = <<>> /\ sc_visited = {}
    /\ sc_calls = <<>> /\ sc_result = 0

CeIdle ==
    /\ ce_pc = "idle" /\ ce_def = <<>> /\ ce_h = <<>> /\ ce_e = <<>> /\ ce_eval = <<>>
    /\ ce_ip = 0 /\ ce_vals = <<>> /\ ce_result = 0

SymIdle ==
    /\ sym_h = <<>> /\ sym_stack = <<>> /\ sym_last = <<>>

NgIdle ==
    /\ ng_counter = 0 /\ ng_log = <<>>

RpIdle ==
    /\ rp_avail = {} /\ rp_out = {} /\ rp_last = <<>>

FeIdle ==
    fe_pc = "idle" /\ fe_f = <<>> /\ fe_h = <<>> /\ fe_envs = <<>> /\ fe_stack = <<>> /\ fe_last = <<>>

FrIdle ==
    fr = <<>>

EmIdle ==
    em_pc = "idle" /\ em_prog = <<>> /\ em_ir = <<>> /\ em_asm = <<>> /\ em_at = <<>> /\ em_hist = <<>>

CmpIdle ==
    cmp_pc = "idle" /\ cmp_op = "" /\ cmp_lhs = <<>> /\ cmp_rhs = <<>> /\ cmp_avail = {} /\ cmp_rs = <<>> /\ cmp_m = <<>>

TpIdle ==
    tp_pc = "idle" /\ tp_inst = <<>> /\ tp_step = 0 /\ tp_avail = {} /\ tp_held = <<>>

DtIdle ==
    dt_pc = "idle" /\ dt_inst = <<>> /\ dt_first = <<>> /\ dt_second = <<>>

(***************************************************************************)
(* The long-offset helpers as pure functions of their arguments            *)
(***************************************************************************)
\* Registers held by the caller when a helper is called (at most).
MaxHeld == 1

\* Offsets around the two ends of the 12-bit range.
LsOffsets == {-4096, -2052, -2049, -2048, -2047, -4, 0, 4, 2044, 2047, 2048, 2052, 4096}
LsSpValues == {65536, 1048576}

LsInit ==
    /\ ls_pc = "call"
    /\ ls_fn = "none"
    /\ ls_imm \in LsOffsets
    /\ ls_sp \in LsSpValues
    /\ \E held \in {H \in SUBSET Temps : Cardinality(H) <= MaxHeld} :
          /\ ls_avail = Temps \ held
          \* the callers pass a register they hold, or ra, a0, an argument
          \* register or x0
          /\ ls_reg \in held \cup {"ra", "a0", "x0"}
    /\ ls_insts = <<>>
    /\ AsmIdle /\ DceIdle /\ ScIdle /\ CeIdle /\ SymIdle /\ NgIdle /\ RpIdle /\ FeIdle /\ FrIdle /\ EmIdle /\ CmpIdle /\ TpIdle /\ DtIdle

CallGenerateLw ==
    /\ ls_pc = "call"
    /\ \E o \in generate_lw(ls_avail, ls_reg, "sp", ls_imm) :
          /\ ls_insts' = o.insts
          /\ ls_avail' = o.avail
    /\ ls_fn' = "lw"
    /\ ls_pc' = "ret"
    /\ UNCHANGED <<ls_reg, ls_imm, ls_sp, notLs>>

CallGenerateSw ==
    /\ ls_pc = "call"
    /\ \E o \in generate_sw(ls_avail, ls_reg, "sp", ls_imm) :
          /\ ls_insts' = o.insts
          /\ ls_avail' = o.avail
    /\ ls_fn' = "sw"
    /\ ls_pc' = "ret"
    /\ UNCHANGED <<ls_reg, ls_imm, ls_sp, notLs>>

\* generate_addi is only called as generate_addi(Sp, Sp, +-aligned).
CallGenerateAddi ==
    /\ ls_pc = "call"
    /\ \E o \in generate_addi(ls_avail, "sp", "sp", ls_imm) :
          /\ ls_insts' = o.insts
          /\ ls_avail' = o.avail
    /\ ls_fn' = "addi"
    /\ ls_pc' = "ret"
    /\ UNCHANGED <<ls_reg, ls_imm, ls_sp, notLs>>

LsNext == CallGenerateLw \/ CallGenerateSw \/ CallGenerateAddi

SpecLs == LsInit /\ [][LsNext]_vars

LsDataInst(fn, reg, base, imm) ==
    IF fn = "lw" THEN Lw(reg, base, imm) ELSE Sw(reg, base, imm)

\* The emitted sequence and the single `lw/sw reg, imm(sp)` leave the same
\* memory and the same registers, the scratch register aside.
LsSameEffect(temp) ==
    LET a == Run(Machine(ls_sp), ls_insts)
        b == Run(Machine(ls_sp), <<LsDataInst(ls_fn, ls_reg, "sp", ls_imm)>>)
    IN  /\ ~a.wild
        /\ a.mem = b.mem
        /\ \A r \in RVRegister \ {temp} : a.regs[r] = b.regs[r]

LsLongForm ==
    \E temp \in Temps \ {ls_reg, "sp"} :
        /\ ls_insts = <<Li(temp, ls_imm), Add(temp, temp, "sp"),
                        LsDataInst(ls_fn, ls_reg, temp, 0)>>
        /\ LsSameEffect(temp)

LsShortForm == ls_insts = <<LsDataInst(ls_fn, ls_reg, "sp", ls_imm)>>

LsAbs(k) == IF k < 0 THEN -k ELSE k

\* C10 (as amended): generate_lw and generate_sw emit li temp,k; add
\* temp,temp,base; lw/sw reg,0(temp), with temp different from reg and base
\* and the net effect of lw/sw reg,k(base), for every offset k >= 2048 or
\* k < -2048, and the single lw/sw reg,k(base) for -2048 <= k < 2048.
C10_LongOffsetSequence ==
    (ls_pc = "ret" /\ ls_fn \in {"lw", "sw"}) =>
        IF ls_imm >= 2048 \/ ls_imm < -2048 THEN LsLongForm ELSE LsShortForm

\* C10 as stated: the three-instruction form for every |k| >= 2048 and the
\* single instruction for every -2048 <= k < 2048.
C10_AsStated ==
    (ls_pc = "ret" /\ ls_fn \in {"lw", "sw"}) =>
        /\ LsAbs(ls_imm) >= 2048 => LsLongForm
        /\ (ls_imm >= -2048 /\ ls_imm < 2048) => LsShortForm

\* A store of a held temporary at an offset that does not fit 12 bits.
C10_Witness ==
    /\ ls_pc = "ret" /\ ls_fn = "sw" /\ ls_imm = 2048
    /\ ls_reg \in Temps /\ Len(ls_insts) = 3

(***************************************************************************)
(* backend/call_graph.rs                                                   *)
(***************************************************************************)
add_call(graph, caller, callee, num_args) ==
    LET g1 == IF caller \in DOMAIN graph THEN graph
              ELSE (caller :> [callee |-> {}, max_args |-> 0]) @@ graph
    IN  [g1 EXCEPT ![caller] = [callee |-> @.callee \cup {callee},
                                max_args |-> Max(@.max_args, num_args)]]

\* The instructions of a layout, in order.
RECURSIVE Flatten(_)
Flatten(bbs) == IF bbs = <<>> THEN <<>> ELSE Head(bbs) \o Flatten(Tail(bbs))

RECURSIVE CallGraphAdd(_, _, _)
CallGraphAdd(graph, caller, insts) ==
    IF insts = <<>> THEN graph
    ELSE LET i == Head(insts)
         IN  CallGraphAdd(IF i.kind = "call"
                          THEN add_call(graph, caller, i.callee, Len(i.args))
                          ELSE graph,
                          caller, Tail(insts))

CallGraphBuild(f) == CallGraphAdd(<<>>, f.name, Flatten(f.bbs))

(***************************************************************************)
(* backend/environment.rs: FunctionPrologueInfo and value storage          *)
(***************************************************************************)
FunctionPrologueInfoNew == [stack_size |-> 0, is_leaf |-> FALSE, args_stack_size |-> 0]

get_aligned_stack_size(info) ==
    LET stack_size == info.stack_size + info.args_stack_size
                      + (IF info.is_leaf THEN 1 ELSE 0) * 4
        remainder == stack_size % 16
    IN  IF remainder = 0 THEN stack_size ELSE stack_size + 16 - remainder

Immediate(n) == [st |-> "Immediate", imm |-> n]
Register(r) == [st |-> "Register", reg |-> r]
Stack(off) == [st |-> "Stack", offset |-> off]
Global(name) == [st |-> "Global", label |-> name]

\* Labels are pairs <<text, number>>: <<"func_", n>> for the n-th generated
\* block name, <<name, 0>> for a function, <<"x", k>> for the k-th global.
FuncLabel(name) == <<name, 0>>
GlobalLabel(k) == <<"x", k>>

(***************************************************************************)
(* backend/generate_asm.rs: FunctionData::generate                         *)
(***************************************************************************)
\* prologue_info as filled from the call graph, with the function keyed
\* absent treated as a caller (is_leaf left at the default of `new`).
analysed_prologue_info_absent_not_leaf(graph, self) ==
    IF self \in DOMAIN graph
    THEN [stack_size |-> 0,
          is_leaf |-> graph[self].callee = {},
          args_stack_size |-> Max(0, graph[self].max_args - 8) * 4]
    ELSE FunctionPrologueInfoNew

\* prologue_info as filled from the call graph.
analysed_prologue_info(graph, self) ==
    IF self \in DOMAIN graph
    THEN [stack_size |-> 0,
          is_leaf |-> graph[self].callee = {},
          args_stack_size |-> Max(0, graph[self].max_args - 8) * 4]
    ELSE [stack_size |-> 0, is_leaf |-> TRUE, args_stack_size |-> 0]

\* The bytes a value of the data-flow graph takes in the frame.
SlotBytes(kind) == IF kind \in {"alloc", "load", "binary", "call"} THEN 4 ELSE 0

RECURSIVE estimated_stack_size(_)
estimated_stack_size(insts) ==
    IF insts = <<>> THEN 0
    ELSE SlotBytes(Head(insts).kind) + estimated_stack_size(Tail(insts))

\* sp on entry to the function whose body m runs.
EntrySp == 16 * 4096

\* The environment Program::generate makes for a function: the globals are
\* in the presence table, the pool is full.
FunctionEnv ==
    [presence_table |-> (<<"global", 0>> :> Global(GlobalLabel(0))),
     function_prologue_info |-> FunctionPrologueInfoNew,
     register_pool |-> new_temp_pool,
     name_map |-> <<>>,
     name_counter |-> 0,
     stack_frame_size |-> 0,
     current_bb |-> 0]

AsmInit ==
    /\ func \in IRFunctions
    /\ call_graph = CallGraphBuild(func)
    /\ prologue_info = FunctionPrologueInfoNew
    /\ env = FunctionEnv
    /\ target = [label |-> FuncLabel(func.name), prologue |-> <<>>, epilogue |-> <<>>,
                 basic_blocks |-> <<>>]
    /\ bb = <<>>
    /\ pc = [at |-> "begin"]
    /\ m = <<>>
    /\ m_call = <<>>
    /\ LsIdle /\ DceIdle /\ ScIdle /\ CeIdle /\ SymIdle /\ NgIdle /\ RpIdle /\ FeIdle /\ FrIdle /\ EmIdle /\ CmpIdle /\ TpIdle /\ DtIdle

\* generate, lines 105-139: prologue_info from the call graph, the frame
\* estimate, stack_frame_size.
FunctionGenerateBegin ==
    /\ pc.at = "begin"
    /\ LET info == analysed_prologue_info(call_graph, func.name)
           est == [info EXCEPT !.stack_size = estimated_stack_size(Flatten(func.bbs))]
           frame == get_aligned_stack_size(est)
       IN  /\ prologue_info' = est
           /\ env' = [env EXCEPT !.function_prologue_info = info,
                                 !.stack_frame_size = frame]
           \* the body runs after the prologue has lowered sp by the frame
           /\ m' = Machine(EntrySp - frame)
    /\ pc' = [at |-> "bb", b |-> 1]
    /\ UNCHANGED <<func, call_graph, target, bb, m_call, notAsm>>

\* lookup_name: the name bound to a block, generated on first use.
lookup_name(e, b) ==
    IF b \in DOMAIN e.name_map THEN [name |-> e.name_map[b], env |-> e]
    ELSE [name |-> <<"func_", e.name_counter>>,
          env |-> [e EXCEPT !.name_map = (b :> <<"func_", e.name_counter>>) @@ @,
                            !.name_counter = @ + 1]]

\* generate, lines 142-151: the next block of the layout is opened.
EnterBB ==
    /\ pc.at = "bb"
    /\ pc.b <= Len(func.bbs)
    /\ LET l == lookup_name(env, pc.b)
       IN  /\ bb' = [label |-> IF pc.b = 1 THEN FuncLabel(func.name) ELSE l.name,
                     is_entry |-> pc.b = 1, is_exit |-> FALSE,
                     instructions |-> <<>>]
           /\ env' = [l.env EXCEPT !.current_bb = pc.b]
    /\ pc' = [at |-> "inst", b |-> pc.b, i |-> 1]
    /\ UNCHANGED <<func, call_graph, prologue_info, target, m, m_call, notAsm>>

\* generate, line 160: the block is complete.
PushBB ==
    /\ pc.at = "inst"
    /\ pc.i > Len(func.bbs[pc.b])
    /\ target' = [target EXCEPT !.basic_blocks = Append(@, bb)]
    /\ pc' = [at |-> "bb", b |-> pc.b + 1]
    /\ UNCHANGED <<func, call_graph, prologue_info, env, bb, m, m_call, notAsm>>

\* The prologue and the epilogue of generate, lines 172-184: the possible
\* (prologue, epilogue, pool afterwards).
PrologueEpilogue(info, avail) ==
    LET aligned_stack_size == get_aligned_stack_size(info)
        ra_offset == info.stack_size + info.args_stack_size
        SaveRa(av) == IF ~info.is_leaf THEN generate_sw(av, "ra", "sp", ra_offset)
                      ELSE {[insts |-> <<>>, avail |-> av]}
        RestoreRa(av) == IF ~info.is_leaf THEN generate_lw(av, "ra", "sp", ra_offset)
                         ELSE {[insts |-> <<>>, avail |-> av]}
    IN  UNION {UNION {UNION {
            {[prologue |-> a1.insts \o s.insts,
              epilogue |-> l.insts \o a2.insts \o <<RetI>>,
              avail |-> a2.avail] :
                a2 \in generate_addi(l.avail, "sp", "sp", aligned_stack_size)} :
            l \in RestoreRa(s.avail)} :
            s \in SaveRa(a1.avail)} :
            a1 \in generate_addi(avail, "sp", "sp", -aligned_stack_size)}

\* generate, lines 163-184: the asserts, the prologue and the epilogue.
FunctionGenerateEnd ==
    /\ pc.at = "bb"
    /\ pc.b > Len(func.bbs)
    /\ IF prologue_info # env.function_prologue_info
       THEN /\ pc' = [at |-> "panic"]
            /\ UNCHANGED <<target, env>>
       ELSE \E o \in PrologueEpilogue(prologue_info, env.register_pool) :
               /\ target' = [target EXCEPT !.prologue = o.prologue,
                                           !.epilogue = o.epilogue]
               /\ env' = [env EXCEPT !.register_pool = o.avail]
               /\ pc' = [at |-> "done"]
    /\ UNCHANGED <<func, call_graph, prologue_info, bb, m, m_call, notAsm>>

(***************************************************************************)
(* backend/environment.rs: load_data, store_data, alloc_stack_storage.     *)
(* Each gives the set of its possible outcomes; an empty set is a panic    *)
(* (the pool is empty, the storage cannot be written).                     *)
(***************************************************************************)
\* load_data: (instructions, register holding the value, pool afterwards).
load_data(avail, storage) ==
    CASE storage.st = "Register" ->
            {[insts |-> <<>>, reg |-> storage.reg, avail |-> avail]}
      [] storage.st = "Stack" ->
            UNION {{[insts |-> o.insts, reg |-> register, avail |-> o.avail] :
                      o \in generate_lw(avail \ {register}, register, "sp",
                                        storage.offset)} :
                   register \in pool_next(avail)}
      [] storage.st = "Immediate" ->
            IF storage.imm = 0
            THEN {[insts |-> <<>>, reg |-> "x0", avail |-> avail]}
            ELSE {[insts |-> <<Li(register, storage.imm)>>, reg |-> register,
                   avail |-> avail \ {register}] : register \in pool_next(avail)}
      [] storage.st = "Global" ->
            UNION {{[insts |-> <<La(global_addr_register, storage.label),
                                 Lw(register, global_addr_register, 0)>>,
                     reg |-> register,
                     avail |-> pool_release(avail \ {global_addr_register, register},
                                            global_addr_register)] :
                      register \in pool_next(avail \ {global_addr_register})} :
                   global_addr_register \in pool_next(avail)}

\* A store_data that does not give the register stored back to the pool.
store_data_keeping_the_register(avail, storage, register) ==
    CASE storage.st = "Stack" -> generate_sw(avail, register, "sp", storage.offset)
      [] storage.st = "Global" ->
            {[insts |-> <<La(global_addr_register, storage.label),
                          Sw(register, global_addr_register, 0)>>,
              avail |-> pool_release(avail \ {global_addr_register},
                                     global_addr_register)] :
                global_addr_register \in pool_next(avail)}
      [] OTHER -> {}

\* store_data: (instructions, pool afterwards).
store_data(avail, storage, register) ==
    CASE storage.st = "Stack" ->
            {[insts |-> o.insts, avail |-> pool_release(o.avail, register)] :
                o \in generate_sw(avail, register, "sp", storage.offset)}
      [] storage.st = "Global" ->
            {[insts |-> <<La(global_addr_register, storage.label),
                          Sw(register, global_addr_register, 0)>>,
              avail |-> pool_release(pool_release(avail \ {global_addr_register},
                                                  global_addr_register), register)] :
                global_addr_register \in pool_next(avail)}
      [] OTHER -> {}     \* unimplemented!()

\* alloc_stack_storage counting the slots from the bottom of the frame.
alloc_stack_storage_from_sp(e, value, size) ==
    LET position == e.function_prologue_info.stack_size
    IN  [e EXCEPT !.presence_table = (value :> Stack(position)) @@ @,
                  !.function_prologue_info.stack_size = @ + size]

\* alloc_stack_storage: the value gets the next slot above the outgoing
\* arguments.
alloc_stack_storage(e, value, size) ==
    LET position == e.function_prologue_info.stack_size
                    + e.function_prologue_info.args_stack_size
    IN  [e EXCEPT !.presence_table = (value :> Stack(position)) @@ @,
                  !.function_prologue_info.stack_size = @ + size]

bind_data_storage(e, value, storage) ==
    [e EXCEPT !.presence_table = (value :> storage) @@ @]

(***************************************************************************)
(* backend/generate_asm.rs: generate_value                                 *)
(***************************************************************************)
\* generate_value on an operand, with a stack parameter bound at its offset
\* from the caller's sp, the callee's own frame not added.
generate_operand_no_frame(e, v) ==
    IF v \in DOMAIN e.presence_table THEN e
    ELSE CASE v[1] = "int" -> [e EXCEPT !.presence_table = (v :> Immediate(v[2])) @@ @]
           [] v[1] = "arg" ->
                [e EXCEPT !.presence_table =
                    (v :> IF v[2] < 8 THEN Register(get_arg_reg(v[2]))
                          ELSE Stack((v[2] - 8) * 4)) @@ @]
           [] OTHER -> e

\* generate_value on an operand: an Integer or a FuncArgRef is bound on its
\* first use; a value already present is left alone.
generate_operand(e, v) ==
    IF v \in DOMAIN e.presence_table THEN e
    ELSE CASE v[1] = "int" -> bind_data_storage(e, v, Immediate(v[2]))
           [] v[1] = "arg" ->
                IF v[2] < 8
                THEN bind_data_storage(e, v, Register(get_arg_reg(v[2])))
                ELSE bind_data_storage(e, v, Stack((v[2] - 8) * 4 + e.stack_frame_size))
           [] OTHER -> e

\* The instruction generate stands at, and its key in the presence table.
CurInst == func.bbs[pc.b][pc.i]
CurValue == <<"inst", CurInst.id>>
AtInst(kind) ==
    /\ pc.at = "inst"
    /\ pc.i <= Len(func.bbs[pc.b])
    /\ CurInst.kind = kind

\* The emitted instruction with the names of the temporaries blanked: which
\* temporary the pool hands out is not fixed, and the blocks are kept up to
\* that choice.  The effect of the very instructions is kept in m.
Blank(r) == IF r \in Temps THEN "t" ELSE r
Blanked(i) ==
    CASE i.op \in {"li", "la"} -> [i EXCEPT !.rd = Blank(@)]
      [] i.op \in {"mv", "addi", "lw", "sw", "seqz", "snez"} ->
            [i EXCEPT !.rd = Blank(@), !.rs = Blank(@)]
      [] i.op \in {"add", "sgt", "slt", "xor", "sub", "mul", "div", "rem", "and", "or"} ->
            [i EXCEPT !.rd = Blank(@), !.rs1 = Blank(@), !.rs2 = Blank(@)]
      [] i.op = "bnez" -> [i EXCEPT !.rs = Blank(@)]
      [] OTHER -> i
BlankedAll(insts) == [k \in 1..Len(insts) |-> Blanked(insts[k])]

\* The common end of a generate_value step: the instructions go to the
\* block and are run, the pool is updated, generate moves on.
Emit(e, insts, avail, next_pc) ==
    /\ env' = [e EXCEPT !.register_pool = avail]
    /\ bb' = [bb EXCEPT !.instructions = @ \o BlankedAll(insts)]
    /\ m' = Junked(Run(m, insts), avail)
    /\ pc' = next_pc

Panic ==
    /\ pc' = [at |-> "panic"]
    /\ UNCHANGED <<env, bb, m>>

NextInst == [pc EXCEPT !.i = @ + 1]

\* Alloc, lines 267-269.
GenAlloc ==
    /\ AtInst("alloc")
    /\ Emit(alloc_stack_storage(env, CurValue, 4), <<>>, env.register_pool, NextInst)
    /\ UNCHANGED <<func, call_graph, prologue_info, target, m_call, notAsm>>

\* Load, lines 270-282.
GenLoad ==
    /\ AtInst("load")
    /\ LET e1 == alloc_stack_storage(env, CurValue, 4)
           outs == UNION {{[insts |-> l.insts \o s.insts, avail |-> s.avail] :
                             s \in store_data(l.avail, e1.presence_table[CurValue], l.reg)} :
                          l \in load_data(e1.register_pool,
                                          e1.presence_table[CurInst.src])}
       IN  IF outs = {} THEN Panic
           ELSE \E o \in outs : Emit(e1, o.insts, o.avail, NextInst)
    /\ UNCHANGED <<func, call_graph, prologue_info, target, m_call, notAsm>>

\* Store, lines 283-295.
GenStore ==
    /\ AtInst("store")
    /\ LET e1 == generate_operand(env, CurInst.value)
           outs == UNION {{[insts |-> l.insts \o s.insts, avail |-> s.avail] :
                             s \in store_data(l.avail, e1.presence_table[CurInst.dest], l.reg)} :
                          l \in load_data(e1.register_pool,
                                          e1.presence_table[CurInst.value])}
       IN  IF outs = {} THEN Panic
           ELSE \E o \in outs : Emit(e1, o.insts, o.avail, NextInst)
    /\ UNCHANGED <<func, call_graph, prologue_info, target, m_call, notAsm>>

\* The instructions of a Binary, lines 230-259.
\* The instructions of a Binary with Ge lowered as Le is.
binary_instructions_ge_as_le(op, rd, rs1, rs2) ==
    CASE op = "NotEq" -> <<Xor(rd, rs1, rs2), Snez(rd, rd)>>
      [] op = "Eq" -> <<Xor(rd, rs1, rs2), Seqz(rd, rd)>>
      [] op = "Gt" -> <<Sgt(rd, rs1, rs2)>>
      [] op = "Lt" -> <<Slt(rd, rs1, rs2)>>
      [] op = "Ge" -> <<Sgt(rd, rs1, rs2), Seqz(rd, rd)>>
      [] op = "Le" -> <<Sgt(rd, rs1, rs2), Seqz(rd, rd)>>
      [] op = "Add" -> <<Add(rd, rs1, rs2)>>

binary_instructions(op, rd, rs1, rs2) ==
    CASE op = "NotEq" -> <<Xor(rd, rs1, rs2), Snez(rd, rd)>>
      [] op = "Eq" -> <<Xor(rd, rs1, rs2), Seqz(rd, rd)>>
      [] op = "Gt" -> <<Sgt(rd, rs1, rs2)>>
      [] op = "Lt" -> <<Slt(rd, rs1, rs2)>>
      [] op = "Ge" -> <<Slt(rd, rs1, rs2), Seqz(rd, rd)>>
      [] op = "Le" -> <<Sgt(rd, rs1, rs2), Seqz(rd, rd)>>
      [] op = "Add" -> <<Add(rd, rs1, rs2)>>
      [] op = "Sub" -> <<Arith3("sub", rd, rs1, rs2)>>
      [] op = "Mul" -> <<Arith3("mul", rd, rs1, rs2)>>
      [] op = "Div" -> <<Arith3("div", rd, rs1, rs2)>>
      [] op = "Mod" -> <<Arith3("rem", rd, rs1, rs2)>>
      [] op = "And" -> <<Arith3("and", rd, rs1, rs2)>>
      [] op = "Or" -> <<Arith3("or", rd, rs1, rs2)>>

\* Binary, lines 219-266.
GenBinary ==
    /\ AtInst("binary")
    /\ LET e1 == generate_operand(generate_operand(
                     alloc_stack_storage(env, CurValue, 4), CurInst.lhs), CurInst.rhs)
           pt == e1.presence_table
           outs == UNION {UNION {UNION {
                     {[insts |-> l1.insts \o l2.insts
                                 \o binary_instructions(CurInst.bop, rd, l1.reg, l2.reg)
                                 \o s.insts,
                       avail |-> s.avail] :
                         s \in store_data(pool_release(pool_release(l2.avail \ {rd},
                                                           l1.reg), l2.reg),
                                          pt[CurValue], rd)} :
                     rd \in pool_next(l2.avail)} :
                     l2 \in load_data(l1.avail, pt[CurInst.rhs])} :
                     l1 \in load_data(e1.register_pool, pt[CurInst.lhs])}
       IN  IF outs = {} THEN Panic
           ELSE \E o \in outs : Emit(e1, o.insts, o.avail, NextInst)
    /\ UNCHANGED <<func, call_graph, prologue_info, target, m_call, notAsm>>

\* Return, lines 203-218.
GenReturn ==
    /\ AtInst("return")
    /\ IF CurInst.value[1] = "none"
       THEN /\ bb' = [bb EXCEPT !.is_exit = TRUE]
            /\ pc' = NextInst
            /\ UNCHANGED <<env, m>>
       ELSE LET e1 == generate_operand(env, CurInst.value)
                outs == {[insts |-> l.insts \o <<Mv("a0", l.reg)>>,
                          avail |-> pool_release(l.avail, l.reg)] :
                            l \in load_data(e1.register_pool,
                                            e1.presence_table[CurInst.value])}
            IN  IF outs = {} THEN Panic
                ELSE \E o \in outs :
                        /\ env' = [e1 EXCEPT !.register_pool = o.avail]
                        /\ bb' = [bb EXCEPT !.instructions = @ \o BlankedAll(o.insts),
                                            !.is_exit = TRUE]
                        /\ m' = Junked(Run(m, o.insts), o.avail)
                        /\ pc' = NextInst
    /\ UNCHANGED <<func, call_graph, prologue_info, target, m_call, notAsm>>

\* Branch, lines 296-310.
GenBranch ==
    /\ AtInst("branch")
    /\ LET e1 == generate_operand(env, CurInst.cond)
           t == lookup_name(e1, CurInst.true_bb)
           f == lookup_name(t.env, CurInst.false_bb)
           outs == {[insts |-> l.insts \o <<Bnez(l.reg, t.name), J(f.name)>>,
                     avail |-> pool_release(l.avail, l.reg)] :
                       l \in load_data(e1.register_pool,
                                       e1.presence_table[CurInst.cond])}
       IN  IF outs = {} THEN Panic
           ELSE \E o \in outs : Emit(f.env, o.insts, o.avail, NextInst)
    /\ UNCHANGED <<func, call_graph, prologue_info, target, m_call, notAsm>>

\* Jump, lines 311-315.
GenJump ==
    /\ AtInst("jump")
    /\ LET t == lookup_name(env, CurInst.target)
       IN  Emit(t.env, <<J(t.name)>>, env.register_pool, NextInst)
    /\ UNCHANGED <<func, call_graph, prologue_info, target, m_call, notAsm>>

\* Inside a Call: how many arguments have been prepared.
InCall == AtInst("call") \/ pc.at = "arg"
ArgsDone == IF pc.at = "arg" THEN pc.a ELSE 0

\* Call, lines 319-339: one turn of the loop over the arguments.
GenCallArg ==
    /\ InCall
    /\ ArgsDone < Len(CurInst.args)
    /\ LET i == ArgsDone
           arg == CurInst.args[i + 1]
           e1 == generate_operand(env, arg)
           outs == {[insts |-> l.insts \o
                               <<IF i < 8 THEN Mv(get_arg_reg(i), l.reg)
                                 ELSE Sw(l.reg, "sp", (i - 8) * 4)>>,
                     avail |-> pool_release(l.avail, l.reg)] :
                       l \in load_data(e1.register_pool, e1.presence_table[arg])}
       IN  IF outs = {} THEN Panic /\ UNCHANGED m_call
           ELSE /\ \E o \in outs :
                      Emit(e1, o.insts, o.avail,
                           [at |-> "arg", b |-> pc.b, i |-> pc.i, a |-> i + 1])
                /\ m_call' = IF pc.at = "arg" THEN m_call ELSE m
    /\ UNCHANGED <<func, call_graph, prologue_info, target, notAsm>>

\* Call, lines 341-349: the call itself and the saving of a0.
GenCallEmit ==
    /\ InCall
    /\ ArgsDone = Len(CurInst.args)
    /\ LET e1 == alloc_stack_storage(env, CurValue, 4)
           outs == {[insts |-> <<CallI(FuncLabel(CurInst.callee))>> \o s.insts,
                     avail |-> s.avail] :
                       s \in store_data(e1.register_pool, e1.presence_table[CurValue], "a0")}
       IN  IF outs = {} THEN Panic /\ UNCHANGED m_call
           ELSE /\ \E o \in outs :
                      Emit(e1, o.insts, o.avail, [at |-> "inst", b |-> pc.b, i |-> pc.i + 1])
                /\ m_call' = IF pc.at = "arg" THEN m_call ELSE m
    /\ UNCHANGED <<func, call_graph, prologue_info, target, notAsm>>

AsmNext ==
    \/ FunctionGenerateBegin
    \/ EnterBB
    \/ GenAlloc
    \/ GenLoad
    \/ GenStore
    \/ GenBinary
    \/ GenReturn
    \/ GenBranch
    \/ GenJump
    \/ GenCallArg
    \/ GenCallEmit
    \/ PushBB
    \/ FunctionGenerateEnd

SpecAsm == AsmInit /\ [][AsmNext]_vars

(***************************************************************************)
(* Claims about the frame of a function                                    *)
(***************************************************************************)
\* The frame size the prologue takes from sp and the epilogue gives back.
PrologueFrame == -target.prologue[1].imm
EpilogueFrame == target.epilogue[Len(target.epilogue) - 1].imm

HasCall(f) == \E k \in 1..Len(Flatten(f.bbs)) : Flatten(f.bbs)[k].kind = "call"
StoresRa(insts) == \E k \in 1..Len(insts) : insts[k].op = "sw" /\ insts[k].rs = "ra"
LoadsRa(insts) == \E k \in 1..Len(insts) : insts[k].op = "lw" /\ insts[k].rd = "ra"

\* C1 as stated: for every lowered function the frame size used by the
\* prologue and the epilogue is a multiple of 16 and is at least
\* stack_size + args_stack_size + (is_leaf ? 0 : 4).
C1_FrameCoversRaSlot ==
    pc.at = "done" =>
        /\ PrologueFrame = get_aligned_stack_size(prologue_info)
        /\ EpilogueFrame = PrologueFrame
        /\ PrologueFrame % 16 = 0
        /\ PrologueFrame >= prologue_info.stack_size + prologue_info.args_stack_size
                            + (IF prologue_info.is_leaf THEN 0 ELSE 4)

\* C26 as stated: in a function that is not a leaf the 4-byte slot in
\* which the prologue saves ra, at stack_size + args_stack_size from sp,
\* lies inside the function's own frame.
C26_RaSlotInsideFrame ==
    (pc.at = "done" /\ ~prologue_info.is_leaf) =>
        \A k \in 1..Len(target.prologue) :
            (target.prologue[k].op = "sw" /\ target.prologue[k].rs = "ra") =>
                /\ target.prologue[k].rd = "sp"
                /\ target.prologue[k].imm
                     = prologue_info.stack_size + prologue_info.args_stack_size
                /\ target.prologue[k].imm + 4 <= PrologueFrame

\* The instruction values that hold a slot in the environment e.
SlotValues(e) ==
    IF e = <<>> THEN {}
    ELSE {v \in DOMAIN e.presence_table : v[1] = "inst"}

\* The slots follow one another from args_stack_size upwards, one value
\* each.
SlotsInOrder ==
    env # <<>> =>
        LET info == env.function_prologue_info
            offsets == {env.presence_table[v].offset : v \in SlotValues(env)}
            n == Cardinality(SlotValues(env))
        IN  /\ \A v \in SlotValues(env) : env.presence_table[v].st = "Stack"
            /\ offsets = {info.args_stack_size + 4 * k : k \in 0..(n - 1)}
            /\ \A v, w \in SlotValues(env) :
                    env.presence_table[v].offset = env.presence_table[w].offset
                        => v = w
            /\ \A v \in SlotValues(env) :
                    env.presence_table[v].offset >= info.args_stack_size
            /\ info.stack_size = 4 * n

\* A value that has a slot keeps it.
SlotsKept ==
    \A v \in SlotValues(env) :
        /\ v \in SlotValues(env')
        /\ env'.presence_table[v] = env.presence_table[v]

\* C27: within one function every Alloc, Load, Binary and Call value has
\* its own 4-byte slot at args_stack_size + 4*k for distinct k, no two
\* values share an offset, no slot lies in the outgoing-argument area
\* [0, args_stack_size), and a slot once assigned never changes.
C27_OwnSlots == []SlotsInOrder /\ [][SlotsKept]_vars

C27_Witness ==
    /\ pc.at = "done"
    /\ env.function_prologue_info.args_stack_size > 0
    /\ Cardinality(SlotValues(env)) >= 3
    /\ \E b \in 1..Len(func.bbs) : \E i \in 1..Len(func.bbs[b]) :
           /\ func.bbs[b][i].kind = "call"
           /\ Len(func.bbs[b][i].args) > 8

\* C2: the prologue stores ra and the epilogue loads ra exactly when the
\* function's IR has a Call; is_leaf is true exactly when the call graph
\* records no callee for the function.
C2_RaSavedIffCall ==
    pc.at = "done" =>
        /\ StoresRa(target.prologue) <=> HasCall(func)
        /\ LoadsRa(target.epilogue) <=> HasCall(func)
        /\ prologue_info.is_leaf <=>
              (func.name \notin DOMAIN call_graph \/ call_graph[func.name].callee = {})

C2_Witness ==
    /\ pc.at = "done"
    /\ HasCall(func)
    /\ StoresRa(target.prologue)
    /\ LoadsRa(target.epilogue)

(***************************************************************************)
(* Claims about calls                                                      *)
(***************************************************************************)
SpOf(mc) == RegRead(mc, "sp")[2]

\* What a value holds in machine mc, by its storage.
ValueIn(mc, storage) ==
    CASE storage.st = "Immediate" -> IntV(storage.imm)
      [] storage.st = "Register" -> RegRead(mc, storage.reg)
      [] storage.st = "Stack" -> MemRead(mc, SpOf(mc) + storage.offset)
      [] storage.st = "Global" -> GlobRead(mc, storage.label[2])

\* Where argument i of a call is handed over.
ArgPlace(mc, i) ==
    IF i < 8 THEN RegRead(mc, get_arg_reg(i)) ELSE MemRead(mc, SpOf(mc) + (i - 8) * 4)

LastEmitted == bb.instructions[Len(bb.instructions)]

\* C8: while the arguments of a Call are prepared and until the `call` is
\* emitted, every argument prepared so far is in place -- argument i < 8 in
\* a{i}, argument i >= 8 in the word at sp + (i-8)*4 -- holding the value the
\* argument had when the Call began; the last instruction emitted is the
\* move into a{i}, or the store at (i-8)*4(sp), of the latest argument.
C8_ArgumentsInPlace ==
    pc.at = "arg" =>
        /\ \A i \in 0..(pc.a - 1) :
              ArgPlace(m, i) = ValueIn(m_call, env.presence_table[CurInst.args[i + 1]])
        /\ LET i == pc.a - 1
           IN  IF i < 8
               THEN LastEmitted.op = "mv" /\ LastEmitted.rd = get_arg_reg(i)
               ELSE /\ LastEmitted.op = "sw" /\ LastEmitted.rd = "sp"
                    /\ LastEmitted.imm = (i - 8) * 4

\* All eleven arguments of a call are prepared, the first read from the
\* frame, and the call is about to be emitted.
C8_Witness ==
    /\ pc.at = "arg"
    /\ pc.a = 11
    /\ Len(CurInst.args) = 11
    /\ env.presence_table[CurInst.args[1]].st = "Stack"
    /\ ArgPlace(m, 10) = ValueIn(m_call, env.presence_table[CurInst.args[11]])

\* The instruction storing parameter i into its local slot, and the slot.
ParamStore(i) == 2 * i + 2
ParamSlot(i) == env.presence_table[<<"inst", 2 * i + 1>>]

\* C9: for a parameter i >= 8 the word the callee reads is the word at
\* (sp on entry) + (i-8)*4, sp on entry being the caller's sp at the call:
\* right after the callee has copied the parameter into its local slot the
\* slot holds the initial content of that word, the parameter's offset
\* taken from sp after the emitted prologue gives that address, and a
\* caller stores argument i at (i-8)*4 from its sp.
C9_StackParamAddress ==
    /\ \A i \in 8..(func.np - 1) :
          (pc.at = "inst" /\ pc.b = 1 /\ pc.i = ParamStore(i) + 1) =>
              ValueIn(m, ParamSlot(i)) = <<"mem", EntrySp + (i - 8) * 4>>
    /\ pc.at = "done" =>
          LET callee_sp == SpOf(Run(Machine(EntrySp), target.prologue))
          IN  /\ callee_sp = SpOf(m)
              /\ \A i \in 8..(func.np - 1) :
                    callee_sp + env.presence_table[<<"arg", i>>].offset
                        = EntrySp + (i - 8) * 4
    /\ (pc.at = "arg" /\ pc.a > 8) =>
          /\ LastEmitted.op = "sw"
          /\ SpOf(m) + LastEmitted.imm = SpOf(m_call) + (pc.a - 1 - 8) * 4

\* A function with ten parameters that passes eleven arguments is lowered.
C9_Witness ==
    /\ pc.at = "done"
    /\ func.np = 10
    /\ <<"arg", 9>> \in DOMAIN env.presence_table
    /\ \E k \in 1..Len(Flatten(func.bbs)) :
          Flatten(func.bbs)[k].kind = "call" /\ Len(Flatten(func.bbs)[k].args) = 11

(***************************************************************************)
(* frontend/ast.rs: the syntax tree.  A node is a record tagged by k.      *)
(***************************************************************************)
Num(n) == [k |-> "Num", n |-> n]
LVal(x) == [k |-> "LVal", x |-> x]
Bin(op, l, r) == [k |-> "Bin", op |-> op, l |-> l, r |-> r]
Land(l, r) == [k |-> "Land", l |-> l, r |-> r]
Lor(l, r) == [k |-> "Lor", l |-> l, r |-> r]
Call(f, args) == [k |-> "Call", f |-> f, args |-> args]
Pos(e) == [k |-> "Pos", e |-> e]
Neg(e) == [k |-> "Neg", e |-> e]
Not(e) == [k |-> "Not", e |-> e]

Return(e) == [k |-> "Return", e |-> e]
Assign(x, e) == [k |-> "Assign", x |-> x, e |-> e]
ExprStmt(e) == [k |-> "Expr", e |-> e]
Empty == [k |-> "Empty"]
Block(items) == [k |-> "Block", items |-> items]
If(c, t) == [k |-> "If", c |-> c, t |-> t]
IfElse(c, t, f) == [k |-> "IfElse", c |-> c, t |-> t, f |-> f]
While(c, s) == [k |-> "While", c |-> c, s |-> s]
Break == [k |-> "Break"]
Continue == [k |-> "Continue"]
VarDecl(x) == [k |-> "VarDecl", x |-> x]
VarInit(x, e) == [k |-> "VarInit", x |-> x, e |-> e]
\* a ConstDecl of one ConstDef
ConstDecl(x, e) == [k |-> "ConstDecl", x |-> x, e |-> e]

\* A call is the one construct with a side effect.
CallHasSideEffect == TRUE

RECURSIVE has_side_effect(_)
has_side_effect(e) ==
    CASE e.k \in {"Num", "LVal"} -> FALSE
      [] e.k \in {"Pos", "Neg", "Not"} -> has_side_effect(e.e)
      [] e.k \in {"Bin", "Land", "Lor"} -> has_side_effect(e.l) \/ has_side_effect(e.r)
      [] e.k = "Call" -> CallHasSideEffect

(***************************************************************************)
(* The IR under construction (koopa's FunctionData seen through the        *)
(* builder calls the front-end and the dead-code pass make) and the        *)
(* symbol tables.  h is everything the environments share:                 *)
(*   values   the data-flow graph, value id -> value                       *)
(*   nv       the last value id handed out                                 *)
(*   bbs      the layout: blocks in creation order, each with its          *)
(*            instructions (value ids) in order; a block is known by its   *)
(*            position                                                     *)
(*   scopes   the NestedSymbolTables, scope id -> (parent, entries)        *)
(*   counter  the NameGenerator                                            *)
(*   overflow_checks  the build: whether i32 arithmetic of the compiler    *)
(*            panics on overflow (as in a debug build) or wraps            *)
(*   err      the FrontendError returned, "none" so far                    *)
(* e is an IREnvironment: cur (context.current_bb), while_stack, and       *)
(* symbol_table (a scope id).  Once err is set nothing more is built: the  *)
(* `?` of the code returns at once.                                        *)
(***************************************************************************)
Integer(n) == [kind |-> "integer", n |-> n]
FuncArgRef(i) == [kind |-> "funcargref", index |-> i]
AllocV == [kind |-> "alloc"]
LoadV(src) == [kind |-> "load", src |-> src]
StoreV(value, dest) == [kind |-> "store", value |-> value, dest |-> dest]
BinaryV(op, lhs, rhs) == [kind |-> "binary", bop |-> op, lhs |-> lhs, rhs |-> rhs]
BranchV(cond, t, f) == [kind |-> "branch", cond |-> cond, true_bb |-> t, false_bb |-> f]
JumpV(tgt) == [kind |-> "jump", target |-> tgt]
\* ret(None) is a Return of value 0 (no value has id 0)
ReturnV(value) == [kind |-> "return", value |-> value]
CallV(callee, args) == [kind |-> "call", callee |-> callee, args |-> args]

Ok(h) == h.err = "none"
Fail(h0, err) == The({ IF Ok(h) THEN [h EXCEPT !.err = err] ELSE h : h \in {h0} })

\* dfg_mut().new_value(): the new value has id h.nv + 1.
new_value(h0, v) ==
    The({ IF Ok(h) THEN [h EXCEPT !.values = (h.nv + 1 :> v) @@ @, !.nv = @ + 1] ELSE h
          : h \in {h0} })

\* IRContext::add_instruction
add_instruction(h0, e, inst) ==
    The({ IF Ok(h) THEN [h EXCEPT !.bbs[e.cur].insts = Append(@, inst)] ELSE h
          : h \in {h0} })

\* new_value followed by add_instruction: the pair the code always makes.
build(h0, e, v) ==
    The({ add_instruction(new_value(h, v), e, h.nv + 1) : h \in {h0} })

\* IRContext::create_block: the new block is Len(h.bbs) + 1.
create_block(h0, name) ==
    The({ IF Ok(h) THEN [h EXCEPT !.bbs = Append(@, [name |-> name, insts |-> <<>>])]
          ELSE h
          : h \in {h0} })

\* NameGenerator::generate and generate_group: one counter step per call.
generate(h0) ==
    The({ IF Ok(h) THEN [h EXCEPT !.counter = @ + 1] ELSE h : h \in {h0} })

\* NestedSymbolTable
new_child(h0, parent) ==
    The({ IF Ok(h)
          THEN [h EXCEPT !.scopes = Append(@, [parent |-> parent, entries |-> <<>>])]
          ELSE h
          : h \in {h0} })

NotFound == [t |-> "None"]
VarEntry(v) == [t |-> "Var", v |-> v]
FuncEntry(f) == [t |-> "Func", handle |-> f]

RECURSIVE lookup(_, _, _)
\* A lookup that asks the parent first.
lookup_parent_first(h, scope, ident) ==
    IF h.scopes[scope].parent # 0 /\ lookup(h, h.scopes[scope].parent, ident) # NotFound
    THEN lookup(h, h.scopes[scope].parent, ident)
    ELSE IF ident \in DOMAIN h.scopes[scope].entries THEN h.scopes[scope].entries[ident]
    ELSE NotFound

\* NestedSymbolTable::lookup
lookup(h, scope, ident) ==
    IF ident \in DOMAIN h.scopes[scope].entries THEN h.scopes[scope].entries[ident]
    ELSE IF h.scopes[scope].parent = 0 THEN NotFound
    ELSE lookup(h, h.scopes[scope].parent, ident)

\* A bind that refuses a name any enclosing scope has.
bind_refusing_visible_names(h0, scope, ident, entry) ==
    The({ IF ~Ok(h) THEN h
          ELSE IF lookup(h, scope, ident) # NotFound
          THEN Fail(h, "MultipleDefinitionsForIdentifier")
          ELSE [h EXCEPT !.scopes[scope].entries = (ident :> entry) @@ @]
          : h \in {h0} })

\* NestedSymbolTable::bind
bind(h0, scope, ident, entry) ==
    The({ IF ~Ok(h) THEN h
          ELSE IF ident \in DOMAIN h.scopes[scope].entries
          THEN Fail(h, "MultipleDefinitionsForIdentifier")
          ELSE [h EXCEPT !.scopes[scope].entries = (ident :> entry) @@ @]
          : h \in {h0} })

(***************************************************************************)
(* i32 arithmetic.  TLC's integers are 32 bits wide and an overflow stops  *)
(* it, so a sum, difference or product is computed without leaving the     *)
(* range.                                                                  *)
(***************************************************************************)
I32Max == 2147483647
I32Min == -2147483647 - 1

add_overflows(a, b) == (b > 0 /\ a > I32Max - b) \/ (b < 0 /\ a < I32Min - b)

wrapping_add(a, b) ==
    IF b > 0 /\ a > I32Max - b THEN (a + I32Min) + (b + I32Min)
    ELSE IF b < 0 /\ a < I32Min - b THEN (a - I32Min) + (b - I32Min)
    ELSE a + b

sub_overflows(a, b) == (b < 0 /\ a > I32Max + b) \/ (b > 0 /\ a < I32Min + b)

wrapping_sub(a, b) ==
    IF b < 0 /\ a > I32Max + b THEN (a + I32Min) - (b - I32Min)
    ELSE IF b > 0 /\ a < I32Min + b THEN (a - I32Min) - (b + I32Min)
    ELSE a - b

neg_overflows(a) == a = I32Min

wrapping_neg(a) == IF a = I32Min THEN I32Min ELSE -a

\* a * b modulo 2^32 by doubling, for b >= 0
RECURSIVE wrapping_mul_nat(_, _)
wrapping_mul_nat(a0, b) ==
    IF b = 0 THEN 0
    ELSE The({ IF b % 2 = 1 THEN wrapping_add(a, rest) ELSE rest
               : a \in {a0}, rest \in {wrapping_mul_nat(wrapping_add(a0, a0), b \div 2)} })

wrapping_mul(a, b) ==
    IF b >= 0 THEN wrapping_mul_nat(a, b)
    ELSE IF b = I32Min THEN (IF a % 2 = 1 THEN I32Min ELSE 0)
    ELSE wrapping_neg(wrapping_mul_nat(a, -b))

Abs(a) == IF a < 0 THEN -a ELSE a

mul_overflows(a, b) ==
    CASE a = 0 \/ b = 0 -> FALSE
      [] a = I32Min -> b # 1
      [] b = I32Min -> a # 1
      [] a = -1 \/ b = -1 -> FALSE
      [] OTHER -> IF (a > 0) = (b > 0)
                  THEN Abs(a) > I32Max \div Abs(b)
                  ELSE Abs(a) > (IF Abs(b) = 1 THEN I32Max
                                 ELSE (I32Max \div Abs(b))
                                      + (IF (I32Max % Abs(b)) + 1 = Abs(b) THEN 1 ELSE 0))

div_overflows(a, b) == a = I32Min /\ b = -1

\* a / b of Rust and `div` of RV32 for b # 0 without overflow: towards zero
trunc_div(a, b) ==
    IF b = I32Min THEN (IF a = I32Min THEN 1 ELSE 0)
    ELSE LET q == IF a < 0 /\ a % Abs(b) # 0 THEN (a \div Abs(b)) + 1
                  ELSE a \div Abs(b)
         IN  IF b < 0 THEN -q ELSE q

\* a % b of Rust and `rem` of RV32 for b # 0: the sign of a
trunc_rem(a, b) ==
    IF b = I32Min THEN (IF a = I32Min THEN 0 ELSE a)
    ELSE IF a < 0 /\ a % Abs(b) # 0 THEN (a % Abs(b)) - Abs(b)
    ELSE a % Abs(b)

(***************************************************************************)
(* frontend/ast.rs: Expr::try_const_eval.  The result is a value, an       *)
(* error, or a panic of the arithmetic: `+ - *` and unary `-` panic on     *)
(* overflow when the build has overflow checks (h.overflow_checks) and     *)
(* wrap when it has not; `/` and `%` panic on overflow in every build.     *)
(***************************************************************************)
EvalOk(v) == [t |-> "Ok", v |-> v]
EvalErr(err) == [t |-> "Err", err |-> err]
EvalPanic == [t |-> "Panic"]

ConstEntry(n) == [t |-> "Const", n |-> n]

\* `+ - *` and unary `-` of i32
arith(checks, overflows, wrapped) ==
    IF overflows /\ checks THEN EvalPanic ELSE EvalOk(wrapped)

Bool(b) == IF b THEN 1 ELSE 0

\* Div and Mod without the test of the right operand.
const_div_mod_without_zero_test(op, lhs_val, rhs_val) ==
    IF rhs_val = 0 THEN EvalOk(0)
    ELSE IF div_overflows(lhs_val, rhs_val) THEN EvalPanic
    ELSE EvalOk(IF op = "Div" THEN trunc_div(lhs_val, rhs_val)
                ELSE trunc_rem(lhs_val, rhs_val))

\* The bodies of Div and Mod, lines 182-197, once the operands have values.
const_div_mod(op, lhs_val, rhs_val) ==
    IF rhs_val = 0 THEN EvalErr("ConstEvalDivZero")
    ELSE IF div_overflows(lhs_val, rhs_val) THEN EvalPanic
    ELSE EvalOk(IF op = "Div" THEN trunc_div(lhs_val, rhs_val)
                ELSE trunc_rem(lhs_val, rhs_val))

\* The closures of binary_expr_eval_rule!, and Div and Mod.
const_binary(checks, op, lhs_val, rhs_val) ==
    CASE op = "Add" -> arith(checks, add_overflows(lhs_val, rhs_val),
                             wrapping_add(lhs_val, rhs_val))
      [] op = "Sub" -> arith(checks, sub_overflows(lhs_val, rhs_val),
                             wrapping_sub(lhs_val, rhs_val))
      [] op = "Mul" -> arith(checks, mul_overflows(lhs_val, rhs_val),
                             wrapping_mul(lhs_val, rhs_val))
      [] op \in {"Div", "Mod"} -> const_div_mod(op, lhs_val, rhs_val)
      [] op = "Lt" -> EvalOk(Bool(lhs_val < rhs_val))
      [] op = "Gt" -> EvalOk(Bool(lhs_val > rhs_val))
      [] op = "Le" -> EvalOk(Bool(lhs_val <= rhs_val))
      [] op = "Ge" -> EvalOk(Bool(lhs_val >= rhs_val))
      [] op = "Eq" -> EvalOk(Bool(lhs_val = rhs_val))
      [] op = "NotEq" -> EvalOk(Bool(lhs_val # rhs_val))
      [] op = "Land" -> EvalOk(Bool(lhs_val # 0 /\ rhs_val # 0))
      [] op = "Lor" -> EvalOk(Bool(lhs_val # 0 \/ rhs_val # 0))

RECURSIVE try_const_eval(_, _, _)
try_const_eval(h, scope, x) ==
    CASE x.k = "Num" -> EvalOk(x.n)
      [] x.k = "LVal" ->
            LET entry == lookup(h, scope, x.x)
            IN  IF entry.t = "Const" THEN EvalOk(entry.n)
                ELSE EvalErr("BindingNonConstExpr")
      [] x.k = "Pos" -> try_const_eval(h, scope, x.e)
      [] x.k = "Neg" ->
            The({ IF val.t = "Ok"
                  THEN arith(h.overflow_checks, neg_overflows(val.v), wrapping_neg(val.v))
                  ELSE val
                  : val \in {try_const_eval(h, scope, x.e)} })
      [] x.k = "Not" ->
            The({ IF val.t = "Ok" THEN EvalOk(Bool(val.v = 0)) ELSE val
                  : val \in {try_const_eval(h, scope, x.e)} })
      [] x.k \in {"Bin", "Land", "Lor"} ->
            The({ IF lhs_val.t # "Ok" THEN lhs_val
                  ELSE The({ IF rhs_val.t # "Ok" THEN rhs_val
                             ELSE const_binary(h.overflow_checks,
                                               IF x.k = "Bin" THEN x.op ELSE x.k,
                                               lhs_val.v, rhs_val.v)
                             : rhs_val \in {try_const_eval(h, scope, x.r)} })
                  : lhs_val \in {try_const_eval(h, scope, x.l)} })

(***************************************************************************)
(* frontend/generate_ir.rs.  An operator takes h and the environment e it  *)
(* is called with and gives h and e afterwards (e is passed by `&mut`),    *)
(* and for an expression the value.                                        *)
(***************************************************************************)
\* A switch_bb whose environment starts outside every loop.
switch_bb_forgetting_loops(e, b) == [e EXCEPT !.cur = b, !.while_stack = <<>>]

\* IREnvironment::switch_bb: a clone of e (its while_stack too, and the same
\* symbol table) in block b.
switch_bb(e, b) == [e EXCEPT !.cur = b]
enter_bb(e, b) == [e EXCEPT !.cur = b]

\* An enter_scope that stays in the caller's table.
enter_scope_sharing_the_table(h, e) ==
    [h |-> new_child(h, e.symbol_table), e |-> e]

\* An enter_scope whose environment starts outside every loop.
enter_scope_forgetting_loops(h, e) ==
    [h |-> new_child(h, e.symbol_table),
     e |-> [e EXCEPT !.symbol_table = Len(h.scopes) + 1, !.while_stack = <<>>]]

\* IREnvironment::enter_scope: a clone of e over a new child of its table.
enter_scope(h, e) ==
    [h |-> new_child(h, e.symbol_table),
     e |-> [e EXCEPT !.symbol_table = Len(h.scopes) + 1]]

\* A Land without side effect that joins its operands as they are.
land_pure_without_tests(h0, e, lhs_val, rhs_val) ==
    The({ LET op == h.nv + 1
              h1 == new_value(h, BinaryV("And", lhs_val, rhs_val))
          IN  [h |-> add_instruction(h1, e, op), e |-> e, val |-> op]
          : h \in {h0} })

\* Expr::Land without side effect, lines 414-425, the operands lowered.
land_pure(h0, e, lhs_val, rhs_val) ==
    The({ LET zero == h.nv + 1
              lhs_neq_z == h.nv + 2
              rhs_neq_z == h.nv + 3
              op == h.nv + 4
              h1 == new_value(h, Integer(0))
              h2 == new_value(h1, BinaryV("NotEq", lhs_val, zero))
              h3 == new_value(h2, BinaryV("NotEq", rhs_val, zero))
              h4 == new_value(h3, BinaryV("And", lhs_neq_z, rhs_neq_z))
              h5 == add_instruction(h4, e, lhs_neq_z)
              h6 == add_instruction(h5, e, rhs_neq_z)
              h7 == add_instruction(h6, e, op)
          IN  [h |-> h7, e |-> e, val |-> op]
          : h \in {h0} })

\* Expr::Lor without side effect, lines 460-469, the operands lowered.
lor_pure(h0, e, lhs_val, rhs_val) ==
    The({ LET zero == h.nv + 1
              or == h.nv + 2
              op == h.nv + 3
              h1 == new_value(h, Integer(0))
              h2 == new_value(h1, BinaryV("Or", lhs_val, rhs_val))
              h3 == new_value(h2, BinaryV("NotEq", or, zero))
              h4 == add_instruction(h3, e, or)
              h5 == add_instruction(h4, e, op)
          IN  [h |-> h5, e |-> e, val |-> op]
          : h \in {h0} })

RECURSIVE expr_generate_ir(_, _, _)
RECURSIVE args_generate_ir(_, _, _, _)
RECURSIVE logical_side_effect(_, _, _, _, _)

\* Land with the test of Lor.
land_strategy_with_test_of_lor ==
    [name |-> "%logical_and", init |-> 0, test |-> "Eq"]

\* What the lowerings of Land and Lor with has_side_effect (lines 383-413,
\* 429-459) differ in: the block names, the initial result and the test of
\* the left operand.
land_strategy == [name |-> "%logical_and", init |-> 0, test |-> "NotEq"]

lor_strategy == [name |-> "%logical_or", init |-> 1, test |-> "Eq"]

\* Land and Lor with has_side_effect.  Besides h, e and the value, the
\* result names the values of the operands and the block of the right one.
logical_side_effect(h0, e0, strategy, lhs, rhs) ==
    LET result == h0.nv + 1
        h1 == build(h0, e0, AllocV)
        h2 == new_value(h1, Integer(strategy.init))
        h3 == build(h2, e0, StoreV(h0.nv + 2, result))
    IN  The({
        LET h4 == new_value(l.h, Integer(0))
            h5 == build(h4, l.e, BinaryV(strategy.test, l.val, l.h.nv + 1))
            lhs_test == l.h.nv + 2
            bb_branch == Len(l.h.bbs) + 1
            bb_merge == Len(l.h.bbs) + 2
            h6 == create_block(generate(h5), <<strategy.name, l.h.counter>>)
            h7 == create_block(generate(h6), <<strategy.name, l.h.counter + 1>>)
            h8 == build(h7, l.e, BranchV(lhs_test, bb_branch, bb_merge))
        IN  The({
            LET h9 == new_value(r.h, Integer(0))
                h10 == build(h9, r.e, BinaryV("NotEq", r.val, r.h.nv + 1))
                h11 == build(h10, r.e, StoreV(r.h.nv + 2, result))
                h12 == build(h11, r.e, JumpV(bb_merge))
                e1 == enter_bb(l.e, bb_merge)
                h13 == build(h12, e1, LoadV(result))
            IN  [h |-> h13, e |-> e1, val |-> r.h.nv + 5,
                 lhs |-> l.val, rhs |-> r.val, bb_branch |-> bb_branch]
            : r \in {expr_generate_ir(h8, switch_bb(l.e, bb_branch), rhs)} })
        : l \in {expr_generate_ir(h3, e0, lhs)} })

\* The loop over the arguments of a call, lines 480-483.
args_generate_ir(h, e, args, vals) ==
    IF args = <<>> THEN [h |-> h, e |-> e, val |-> vals]
    ELSE The({ args_generate_ir(a.h, a.e, Tail(args), Append(vals, a.val))
               : a \in {expr_generate_ir(h, e, Head(args))} })

expr_generate_ir(h0, e0, x) ==
    The({
    IF ~Ok(h) THEN [h |-> h, e |-> e, val |-> 0]
    ELSE CASE x.k = "Num" ->
                [h |-> new_value(h, Integer(x.n)), e |-> e, val |-> h.nv + 1]
           [] x.k = "LVal" ->
                LET entry == lookup(h, e.symbol_table, x.x)
                IN  (CASE entry.t = "None" ->
                            [h |-> Fail(h, "DefinitionNotFoundForIdentifier"),
                             e |-> e, val |-> 0]
                       [] entry.t = "Const" ->
                            [h |-> new_value(h, Integer(entry.n)), e |-> e,
                             val |-> h.nv + 1]
                       [] entry.t = "Var" ->
                            [h |-> build(h, e, LoadV(entry.v)), e |-> e,
                             val |-> h.nv + 1]
                       [] entry.t = "Func" ->
                            [h |-> Fail(h, "InvalidFunctionCall"), e |-> e, val |-> 0])
           [] x.k = "Pos" -> expr_generate_ir(h, e, x.e)
           [] x.k \in {"Neg", "Not"} ->
                \* the zero is made before the operand is lowered
                The({ [h |-> build(val.h, val.e,
                                   IF x.k = "Neg" THEN BinaryV("Sub", h.nv + 1, val.val)
                                   ELSE BinaryV("Eq", val.val, h.nv + 1)),
                       e |-> val.e, val |-> val.h.nv + 1]
                      : val \in {expr_generate_ir(new_value(h, Integer(0)), e, x.e)} })
           [] x.k = "Bin" ->
                The({ The({
                    [h |-> build(r.h, r.e, BinaryV(x.op, l.val, r.val)), e |-> r.e,
                     val |-> r.h.nv + 1]
                    : r \in {expr_generate_ir(l.h, l.e, x.r)} })
                    : l \in {expr_generate_ir(h, e, x.l)} })
           [] x.k = "Land" ->
                IF has_side_effect(x)
                THEN logical_side_effect(h, e, land_strategy, x.l, x.r)
                ELSE The({ The({ land_pure(r.h, r.e, l.val, r.val)
                     : r \in {expr_generate_ir(l.h, l.e, x.r)} })
                     : l \in {expr_generate_ir(h, e, x.l)} })
           [] x.k = "Lor" ->
                IF has_side_effect(x)
                THEN logical_side_effect(h, e, lor_strategy, x.l, x.r)
                ELSE The({ The({ lor_pure(r.h, r.e, l.val, r.val)
                     : r \in {expr_generate_ir(l.h, l.e, x.r)} })
                     : l \in {expr_generate_ir(h, e, x.l)} })
           [] x.k = "Call" ->
                LET callee == lookup(h, e.symbol_table, x.f)
                IN  (CASE callee.t = "None" ->
                            [h |-> Fail(h, "DefinitionNotFoundForIdentifier"),
                             e |-> e, val |-> 0]
                       [] callee.t = "Func" ->
                            The({ [h |-> build(a.h, a.e, CallV(callee.handle, a.val)),
                                   e |-> a.e, val |-> a.h.nv + 1]
                                  : a \in {args_generate_ir(h, e, x.args, <<>>)} })
                       [] OTHER ->
                            [h |-> Fail(h, "InvalidFunctionCall"), e |-> e, val |-> 0])
    : h \in {h0}, e \in {e0} })

\* An assignment that looks its lval up before it lowers the expression.
stmt_assign_lval_first(h, e, s) ==
    LET lv == lookup(h, e.symbol_table, s.x)
    IN  CASE lv.t = "Var" ->
                 The({ [h |-> build(val.h, val.e, StoreV(val.val, lv.v)), e |-> val.e]
                       : val \in {expr_generate_ir(h, e, s.e)} })
          [] lv.t = "None" ->
                 [h |-> Fail(h, "DefinitionNotFoundForIdentifier"), e |-> e]
          [] OTHER -> [h |-> Fail(h, "InvalidAssignmentToConst"), e |-> e]

\* Stmt::Assign, lines 185-204: the expression is lowered, then the lval is
\* looked up; a Var takes the store, an unbound name and every other entry
\* are errors.
stmt_assign_generate_ir(h, e, s) ==
    The({ LET lv == lookup(val.h, val.e.symbol_table, s.x)
          IN  [h |-> CASE lv.t = "Var" ->
                              build(val.h, val.e, StoreV(val.val, lv.v))
                       [] lv.t = "None" ->
                              Fail(val.h, "DefinitionNotFoundForIdentifier")
                       [] OTHER -> Fail(val.h, "InvalidAssignmentToConst"),
               e |-> val.e]
          : val \in {expr_generate_ir(h, e, s.e)} })

RECURSIVE stmt_generate_ir(_, _, _)
RECURSIVE block_generate_ir(_, _, _)

\* Block::generate_ir, lines 102-109: the items in order.
block_generate_ir(h, e, items) ==
    IF items = <<>> THEN [h |-> h, e |-> e]
    ELSE The({ block_generate_ir(first.h, first.e, Tail(items))
               : first \in {stmt_generate_ir(h, e, Head(items))} })

\* Decl::generate_ir (VarDecl) and Stmt::generate_ir.
stmt_generate_ir(h0, e0, s) ==
    The({
    IF ~Ok(h) THEN [h |-> h, e |-> e]
    ELSE CASE s.k = "ConstDecl" ->
                The({ [h |-> CASE eval_result.t = "Ok" ->
                                     bind(h, e.symbol_table, s.x, ConstEntry(eval_result.v))
                               [] eval_result.t = "Err" -> Fail(h, eval_result.err)
                               [] eval_result.t = "Panic" -> Fail(h, "panic"),
                       e |-> e]
                      : eval_result \in {try_const_eval(h, e.symbol_table, s.e)} })
           [] s.k = "VarDecl" ->
                [h |-> bind(build(h, e, AllocV), e.symbol_table, s.x, VarEntry(h.nv + 1)),
                 e |-> e]
           [] s.k = "VarInit" ->
                LET var == h.nv + 1
                IN  The({ [h |-> bind(build(val.h, val.e, StoreV(val.val, var)),
                                      val.e.symbol_table, s.x, VarEntry(var)),
                           e |-> val.e]
                          : val \in {expr_generate_ir(build(h, e, AllocV), e, s.e)} })
           [] s.k = "Return" ->
                The({ [h |-> build(return_val.h, return_val.e, ReturnV(return_val.val)),
                       e |-> return_val.e]
                      : return_val \in {expr_generate_ir(h, e, s.e)} })
           [] s.k = "Assign" -> stmt_assign_generate_ir(h, e, s)
           [] s.k = "Expr" ->
                The({ [h |-> ev.h, e |-> ev.e] : ev \in {expr_generate_ir(h, e, s.e)} })
           [] s.k = "Empty" -> [h |-> h, e |-> e]
           [] s.k = "Block" ->
                \* enter_scope, then `env.context = new_env.context`
                LET new_env == [e EXCEPT !.symbol_table = Len(h.scopes) + 1]
                IN  The({ [h |-> result.h, e |-> [e EXCEPT !.cur = result.e.cur]]
                          : result \in {block_generate_ir(new_child(h, e.symbol_table),
                                                          new_env, s.items)} })
           [] s.k = "If" ->
                The({
                LET then_bb == Len(cond_val.h.bbs) + 1
                    merge_bb == Len(cond_val.h.bbs) + 2
                    h1 == generate(cond_val.h)
                    h2 == create_block(h1, <<"%then", cond_val.h.counter>>)
                    h3 == create_block(h2, <<"%merge", cond_val.h.counter>>)
                    h4 == build(h3, cond_val.e, BranchV(cond_val.val, then_bb, merge_bb))
                IN  The({ [h |-> build(then_env.h, then_env.e, JumpV(merge_bb)),
                           e |-> enter_bb(cond_val.e, merge_bb)]
                          : then_env \in
                              {stmt_generate_ir(h4, switch_bb(cond_val.e, then_bb), s.t)} })
                : cond_val \in {expr_generate_ir(h, e, s.c)} })
           [] s.k = "IfElse" ->
                The({
                LET then2 == Len(cond2.h.bbs) + 1
                    else2 == Len(cond2.h.bbs) + 2
                    merge2 == Len(cond2.h.bbs) + 3
                    g1 == generate(cond2.h)
                    g2 == create_block(g1, <<"%then", cond2.h.counter>>)
                    g3 == create_block(g2, <<"%else", cond2.h.counter>>)
                    g4 == create_block(g3, <<"%merge", cond2.h.counter>>)
                    g5 == build(g4, cond2.e, BranchV(cond2.val, then2, else2))
                IN  The({ The({
                        [h |-> build(else_env.h, else_env.e, JumpV(merge2)),
                         e |-> enter_bb(cond2.e, merge2)]
                        : else_env \in
                            {stmt_generate_ir(build(then_env2.h, then_env2.e, JumpV(merge2)),
                                              switch_bb(cond2.e, else2), s.f)} })
                        : then_env2 \in
                            {stmt_generate_ir(g5, switch_bb(cond2.e, then2), s.t)} })
                : cond2 \in {expr_generate_ir(h, e, s.c)} })
           [] s.k = "While" ->
                LET entry_bb == Len(h.bbs) + 1
                    body_bb == Len(h.bbs) + 2
                    end_bb == Len(h.bbs) + 3
                    w1 == generate(h)
                    w2 == create_block(w1, <<"%entry", h.counter>>)
                    w3 == create_block(w2, <<"%body", h.counter>>)
                    w4 == create_block(w3, <<"%end", h.counter>>)
                    pushed == [e EXCEPT !.while_stack = Append(@, <<entry_bb, end_bb>>)]
                    w5 == build(w4, pushed, JumpV(entry_bb))
                IN  The({ The({
                        [h |-> build(body_env.h, body_env.e, JumpV(entry_bb)),
                         e |-> [enter_bb(pushed, end_bb) EXCEPT
                                   !.while_stack = SubSeq(@, 1, Len(@) - 1)]]
                        : body_env \in
                            {stmt_generate_ir(
                                build(cond3.h, cond3.e, BranchV(cond3.val, body_bb, end_bb)),
                                switch_bb(cond3.e, body_bb), s.s)} })
                        : cond3 \in
                            {expr_generate_ir(w5, switch_bb(pushed, entry_bb), s.c)} })
           [] s.k = "Break" ->
                IF e.while_stack # <<>>
                THEN [h |-> build(h, e, JumpV(e.while_stack[Len(e.while_stack)][2])),
                      e |-> e]
                ELSE [h |-> Fail(h, "BreakOutsideOfLoop"), e |-> e]
           [] s.k = "Continue" ->
                IF e.while_stack # <<>>
                THEN [h |-> build(h, e, JumpV(e.while_stack[Len(e.while_stack)][1])),
                      e |-> e]
                ELSE [h |-> Fail(h, "ContinueOutsideOfLoop"), e |-> e]
    : h \in {h0}, e \in {e0} })

\* The library functions declared by CompUnit::generate_ir, lines 24-31.
LibraryFunctions == {"getint", "getch", "getarray", "putint", "putch", "putarray",
                     "starttime", "stoptime"}

\* The parameters of a function: alloc, store, bind (lines 76-84).
RECURSIVE params_generate_ir(_, _, _, _)
params_generate_ir(h0, e, params, i) ==
    IF i > Len(params) THEN h0
    ELSE The({ LET var == h.nv + 1
                   h2 == build(build(h, e, AllocV), e, StoreV(i, var))
               IN  params_generate_ir(bind(h2, e.symbol_table, params[i], VarEntry(var)),
                                      e, params, i + 1)
               : h \in {h0} })

\* FuncDef::generate_ir, lines 44-84, for a function [name, ret, params,
\* body]: the function is made and bound, its entry block entered and its
\* parameters bound.  The values 1..Len(params) are the FuncArgRefs; scope 1
\* is the global scope, scope 2 the function's.
func_def_enter(f) ==
    LET globals == [n \in LibraryFunctions \cup {f.name} |-> FuncEntry(n)]
        h0 == [values |-> [i \in 1..Len(f.params) |-> FuncArgRef(i - 1)],
               nv |-> Len(f.params),
               bbs |-> << [name |-> <<"%entry", -1>>, insts |-> <<>>] >>,
               scopes |-> << [parent |-> 0, entries |-> globals],
                             [parent |-> 1, entries |-> <<>>] >>,
               counter |-> 0,
               overflow_checks |-> FALSE,
               err |-> "none"]
        new_env == [cur |-> 1, while_stack |-> <<>>, symbol_table |-> 2]
    IN  [h |-> params_generate_ir(h0, new_env, f.params, 1), e |-> new_env]

\* FuncDef::generate_ir, lines 44-96
func_def_generate_ir(f) ==
    The({ The({ IF f.ret = "void" THEN build(body.h, body.e, ReturnV(0)) ELSE body.h
                : body \in {block_generate_ir(entered.h, entered.e, f.body)} })
          : entered \in {func_def_enter(f)} })

(***************************************************************************)
(* opt/dead_code_elimination.rs                                            *)
(***************************************************************************)
\* is_terminator with Return left out.
is_terminator_without_return(value) == value.kind \in {"branch", "jump"}

is_terminator(value) == value.kind \in {"branch", "return", "jump"}

\* The values a value uses (koopa keeps used_by from these).
Uses(value) ==
    CASE value.kind = "load" -> {value.src}
      [] value.kind = "store" -> {value.value, value.dest}
      [] value.kind = "binary" -> {value.lhs, value.rhs}
      [] value.kind = "branch" -> {value.cond}
      [] value.kind = "return" -> {value.value} \ {0}
      [] value.kind = "call" -> {value.args[k] : k \in 1..Len(value.args)}
      [] OTHER -> {}

\* dfg().value(inst).used_by(): the values of the graph that use inst,
\* whether or not they are still in the layout.
used_by(h, inst) == {u \in DOMAIN h.values : inst \in Uses(h.values[u])}

\* A removal that leaves the value in the data-flow graph.
remove_value_keeping_the_data(h, inst) == h

\* dfg_mut().remove_value(inst)
remove_value(h, inst) ==
    [h EXCEPT !.values = [v \in (DOMAIN h.values) \ {inst} |-> h.values[v]]]

\* mark, lines 26-32: the terminators of the graph join self.terminators.
mark(terminators, h) ==
    terminators \cup {v \in DOMAIN h.values : is_terminator(h.values[v])}

\* The position of the first instruction of insts that is in terminators,
\* 0 if there is none (the inner loop of sweep, lines 41-56).
FirstTerminator(insts, terminators) ==
    LET T == {k \in 1..Len(insts) : insts[k] \in terminators}
    IN  IF T = {} THEN 0 ELSE CHOOSE k \in T : \A j \in T : k <= j

\* Line 58 with every block taken for unterminated.
lacks_terminator_always(insts, terminators) == TRUE

\* Line 58: the block does not end with a terminator.
lacks_terminator(insts, terminators) ==
    ~(insts # <<>> /\ insts[Len(insts)] \in terminators)

\* Lines 84-91 for the blocks of bb_worklist in order: in @main each gets
\* an Integer 0 and a Return of it.
RECURSIVE append_returns(_, _)
append_returns(h, bb_worklist) ==
    IF bb_worklist = <<>> THEN h
    ELSE LET b == Head(bb_worklist)
             zero == h.nv + 1
             ret_inst == h.nv + 2
             h1 == [h EXCEPT !.values = (ret_inst :> ReturnV(zero))
                                        @@ (zero :> Integer(0)) @@ @,
                             !.nv = ret_inst,
                             !.bbs[b].insts = Append(@, ret_inst)]
         IN  append_returns(h1, Tail(bb_worklist))

(***************************************************************************)
(* The front-end followed by the dead-code pass, one function at a time.   *)
(*   ast        the FuncDef [name, ret, params, body]                      *)
(*   ir         the FunctionData [name, values, nv, bbs]                   *)
(*   dce_pc     "source", "ir", "rejected" (a FrontendError), then the     *)
(*              position in run_on: "sweep" (the loop over the blocks),    *)
(*              "worklist" (the loop of lines 70-77), "done"               *)
(*   pass       the DeadCodeEliminationPass                                *)
(*   sweep      the locals of sweep: bb_cursor, worklist, bb_worklist      *)
(*   runs       the runs of the pass completed on ir                       *)
(*   ir_before  ir when the current run began                              *)
(*   ir_once    ir when the first run ended                                *)
(***************************************************************************)
MaxItems == 3
MaxRuns == 2

\* The statements a body is made of.
Statements ==
    LET one == Num(1)
        set == Assign("x", one)
        zero == Return(Num(0))
    IN  { zero, VarDecl("x"), set, Break,
          If(one, set), If(one, zero),
          IfElse(one, Return(Num(1)), Return(Num(2))), IfElse(one, set, zero),
          While(LVal("x"), Break), While(one, Continue), While(LVal("x"), set),
          While(one, Block(<<Break, set>>)), While(one, zero) }

Bodies == UNION {[1..n -> Statements] : n \in 0..MaxItems}

Programs ==
    {[name |-> "main", ret |-> "int", params |-> <<>>, body |-> b] : b \in Bodies}
    \cup {[name |-> "f", ret |-> "int", params |-> <<"x">>, body |-> b] : b \in Bodies}
    \cup {[name |-> "f", ret |-> "void", params |-> <<>>, body |-> b] : b \in Bodies}

\* format!("@{}", self.ident)
ir_func_name(ident) == <<"@", ident>>

FunctionData(f, h) ==
    [name |-> ir_func_name(f.name), values |-> h.values, nv |-> h.nv, bbs |-> h.bbs]

DceInit ==
    /\ ast \in Programs
    /\ ir = <<>>
    /\ dce_pc = "source"
    /\ pass = <<>>
    /\ sweep = <<>>
    /\ runs = 0
    /\ ir_before = <<>>
    /\ ir_once = <<>>
    /\ LsIdle /\ AsmIdle /\ ScIdle /\ CeIdle /\ SymIdle /\ NgIdle /\ RpIdle /\ FeIdle /\ FrIdle /\ EmIdle /\ CmpIdle /\ TpIdle /\ DtIdle

\* frontend::generate_ir on the function
FrontendGenerate ==
    /\ dce_pc = "source"
    /\ LET h == func_def_generate_ir(ast)
       IN  IF Ok(h)
           THEN ir' = FunctionData(ast, h) /\ dce_pc' = "ir"
           ELSE ir' = ir /\ dce_pc' = "rejected"
    /\ UNCHANGED <<ast, pass, sweep, runs, ir_before, ir_once, notDce>>

\* run_on, line 13 and the locals of sweep: a first run is made with
\* DeadCodeEliminationPass::new(), a later one with a new pass or the same.
Mark ==
    /\ \/ dce_pc = "ir"
       \/ dce_pc = "done" /\ runs < MaxRuns
    /\ \E fresh \in BOOLEAN :
          pass' = [terminators |->
                     mark(IF fresh \/ runs = 0 THEN {} ELSE pass.terminators, ir)]
    /\ sweep' = [bb_cursor |-> 1, worklist |-> <<>>, bb_worklist |-> <<>>]
    /\ ir_before' = ir
    /\ dce_pc' = "sweep"
    /\ UNCHANGED <<ast, ir, runs, ir_once, notDce>>

\* One turn of the loop over the blocks, lines 39-67.
SweepBlock ==
    /\ dce_pc = "sweep"
    /\ LET b == sweep.bb_cursor
           insts == ir.bbs[b].insts
           t == FirstTerminator(insts, pass.terminators)
           kept == IF t = 0 THEN insts ELSE SubSeq(insts, 1, t)
           removed == IF t = 0 THEN <<>> ELSE SubSeq(insts, t + 1, Len(insts))
       IN  /\ ir' = [ir EXCEPT !.bbs[b].insts = kept]
           /\ sweep' = [bb_cursor |-> b + 1,
                        worklist |-> sweep.worklist \o removed,
                        bb_worklist |->
                            IF lacks_terminator(kept, pass.terminators)
                            THEN Append(sweep.bb_worklist, b)
                            ELSE sweep.bb_worklist]
           /\ dce_pc' = IF b = Len(ir.bbs) THEN "worklist" ELSE "sweep"
    /\ UNCHANGED <<ast, pass, runs, ir_before, ir_once, notDce>>

\* One turn of the loop over the worklist, lines 70-77.
WorklistStep ==
    /\ dce_pc = "worklist"
    /\ sweep.worklist # <<>>
    /\ LET inst == Head(sweep.worklist)
       IN  IF used_by(ir, inst) = {}
           THEN /\ ir' = remove_value(ir, inst)
                /\ sweep' = [sweep EXCEPT !.worklist = Tail(@)]
           ELSE /\ ir' = ir
                /\ sweep' = [sweep EXCEPT !.worklist = Append(Tail(@), inst)]
    /\ UNCHANGED <<ast, dce_pc, pass, runs, ir_before, ir_once, notDce>>

\* The worklist is empty: lines 84-91, and run_on returns.
AppendReturns ==
    /\ dce_pc = "worklist"
    /\ sweep.worklist = <<>>
    /\ ir' = IF ir.name = ir_func_name("main")
             THEN append_returns(ir, sweep.bb_worklist)
             ELSE ir
    /\ dce_pc' = "done"
    /\ runs' = runs + 1
    /\ ir_once' = IF runs = 0 THEN ir' ELSE ir_once
    /\ UNCHANGED <<ast, pass, sweep, ir_before, notDce>>

DceNext ==
    \/ FrontendGenerate
    \/ Mark
    \/ SweepBlock
    \/ WorklistStep
    \/ AppendReturns

SpecDce == DceInit /\ [][DceNext]_vars

(***************************************************************************)
(* Claims about the dead-code pass                                         *)
(***************************************************************************)
Finished == dce_pc = "done"

IsTerminatorAt(fd, b, k) == is_terminator(fd.values[fd.bbs[b].insts[k]])

\* The instructions of insts up to its first terminator, all of them if it
\* has none: what the loop of lines 41-56 leaves of a block.
Swept(fd, insts) ==
    LET T == {k \in 1..Len(insts) : is_terminator(fd.values[insts[k]])}
    IN  IF T = {} THEN insts
        ELSE SubSeq(insts, 1, CHOOSE k \in T : \A j \in T : k <= j)

EndsWithTerminator(fd, insts) ==
    insts # <<>> /\ is_terminator(fd.values[insts[Len(insts)]])

IsReturnOfZero(fd, inst) ==
    /\ fd.values[inst].kind = "return"
    /\ fd.values[inst].value \in DOMAIN fd.values
    /\ fd.values[fd.values[inst].value] = Integer(0)

\* C3: after the pass has run on a function the front-end produced, every
\* block of the layout holds exactly one terminator, and it is the last
\* instruction of the block.
C3_OneTerminatorLast ==
    Finished =>
        \A b \in 1..Len(ir.bbs) :
            LET n == Len(ir.bbs[b].insts)
            IN  /\ n > 0
                /\ \A k \in 1..n : IsTerminatorAt(ir, b, k) <=> k = n

\* C4: the pass terminates, the worklist drains: while the worklist is not
\* empty some value in it has no user left.  (A turn of the loop of lines
\* 70-77 changes the graph only by removing such a value, so where none is
\* left the loop turns for ever over the same worklist, and where one is
\* left the worklist gets shorter within Len(worklist) turns.)
C4_WorklistDrains ==
    (dce_pc = "worklist" /\ sweep.worklist # <<>>) =>
        \E k \in 1..Len(sweep.worklist) : used_by(ir, sweep.worklist[k]) = {}

\* C5: in @main, a block whose last instruction is not a terminator when
\* the sweep has cut it after its first terminator (an empty block too)
\* is, after the pass, that block followed by one Return of the integer 0;
\* a block that ends in a terminator then is left as the sweep cut it.
C5_MainFallthroughReturnsZero ==
    (Finished /\ ir.name = ir_func_name("main")) =>
        /\ Len(ir.bbs) = Len(ir_before.bbs)
        /\ \A b \in 1..Len(ir.bbs) :
              LET swept == Swept(ir_before, ir_before.bbs[b].insts)
                  after == ir.bbs[b].insts
              IN  IF EndsWithTerminator(ir_before, swept)
                  THEN after = swept
                  ELSE /\ Len(after) = Len(swept) + 1
                       /\ SubSeq(after, 1, Len(swept)) = swept
                       /\ IsReturnOfZero(ir, after[Len(after)])

\* A run on main has ended that gave an empty block its `ret 0` and cut a
\* block after its terminator without adding to it.
C5_Witness ==
    /\ Finished /\ ir.name = ir_func_name("main")
    /\ \E b \in 1..Len(ir.bbs) :
          ir_before.bbs[b].insts = <<>> /\ Len(ir.bbs[b].insts) = 1
    /\ \E b \in 1..Len(ir.bbs) :
          Len(ir.bbs[b].insts) < Len(ir_before.bbs[b].insts)

\* C6: a second run of the pass leaves the layout and the data-flow graph
\* as the first run left them.
C6_SecondRunChangesNothing ==
    (Finished /\ runs = 2) => ir = ir_once

\* Two runs on main have ended, the first of which appended a `ret 0` and
\* removed a value from the graph.
C6_Witness ==
    /\ Finished /\ runs = 2
    /\ ir.name = ir_func_name("main")
    /\ LET h == func_def_generate_ir(ast)
       IN  /\ ir_once.nv > h.nv
           /\ DOMAIN h.values \ DOMAIN ir_once.values # {}

(***************************************************************************)
(* The frame of a function the front-end (and the dead-code pass) made:    *)
(* backend/generate_asm.rs, FunctionData::generate, as far as the stack    *)
(* frame goes.  fd is the FunctionData [name, values, nv, bbs]; the frame  *)
(* environment e is the AsmEnvironment's presence_table,                   *)
(* function_prologue_info and stack_frame_size, with panicked set once a   *)
(* step of the lowering has panicked (a handle without data, load_data on  *)
(* a value without storage).                                               *)
(***************************************************************************)
\* The value data of the instructions of the layout, in order.
LayoutValues(fd) ==
    Flatten([b \in 1..Len(fd.bbs) |->
                [k \in 1..Len(fd.bbs[b].insts) |-> fd.values[fd.bbs[b].insts[k]]]])

\* The fold of lines 120-137 over the values of ids: the sum of their
\* sizes, taken size by size.
RECURSIVE SumOfSizes(_, _, _)
SumOfSizes(fd, ids, sizes) ==
    IF sizes = {} THEN 0
    ELSE LET s == CHOOSE t \in sizes : TRUE
         IN  s * Cardinality({v \in ids : SlotBytes(fd.values[v].kind) = s})
             + SumOfSizes(fd, ids, sizes \ {s})

dfg_stack_size(fd, ids) ==
    SumOfSizes(fd, ids, {SlotBytes(fd.values[v].kind) : v \in ids})

\* Lines 120-137: every value of the data-flow graph is counted.
frame_estimate(fd, ids) == dfg_stack_size(fd, ids)

FramePanic(e) == [e EXCEPT !.panicked = TRUE]

\* generate_value as far as the presence table and the frame go.
RECURSIVE frame_value(_, _, _)
RECURSIVE frame_operands(_, _, _)
\* generate_value on an operand, then load_data on it.
frame_operand(fd, e0, v) ==
    The({ IF e.panicked \/ v \in DOMAIN e.presence_table THEN e ELSE FramePanic(e)
          : e \in {frame_value(fd, e0, v)} })

frame_operands(fd, e, args) ==
    IF args = <<>> THEN e
    ELSE frame_operands(fd, frame_operand(fd, e, Head(args)), Tail(args))

frame_value(fd, e0, v) ==
    The({ IF e.panicked \/ v \in DOMAIN e.presence_table THEN e
          ELSE IF v \notin DOMAIN fd.values THEN FramePanic(e)
          ELSE LET d == fd.values[v]
               IN  CASE d.kind = "integer" -> bind_data_storage(e, v, Immediate(d.n))
                     [] d.kind = "funcargref" ->
                          bind_data_storage(e, v,
                              IF d.index < 8 THEN Register(get_arg_reg(d.index))
                              ELSE Stack((d.index - 8) * 4 + e.stack_frame_size))
                     [] d.kind = "return" ->
                          IF d.value = 0 THEN e ELSE frame_operand(fd, e, d.value)
                     [] d.kind = "binary" ->
                          frame_operand(fd,
                              frame_operand(fd, alloc_stack_storage(e, v, 4), d.lhs),
                              d.rhs)
                     [] d.kind = "alloc" -> alloc_stack_storage(e, v, 4)
                     [] d.kind = "load" ->
                          The({ IF d.src \in DOMAIN e1.presence_table THEN e1
                                ELSE FramePanic(e1)
                                : e1 \in {alloc_stack_storage(e, v, 4)} })
                     [] d.kind = "store" ->
                          The({ IF e1.panicked \/ d.dest \in DOMAIN e1.presence_table
                                THEN e1 ELSE FramePanic(e1)
                                : e1 \in {frame_operand(fd, e, d.value)} })
                     [] d.kind = "branch" -> frame_operand(fd, e, d.cond)
                     [] d.kind = "jump" -> e
                     [] d.kind = "call" ->
                          alloc_stack_storage(frame_operands(fd, e, d.args), v, 4)
          : e \in {e0} })

\* The loop of lines 142-161 over the instructions of the layout.
RECURSIVE frame_layout(_, _, _)
frame_layout(fd, e, insts) ==
    IF insts = <<>> THEN e
    ELSE frame_layout(fd, frame_value(fd, e, Head(insts)), Tail(insts))

LayoutInsts(fd) == Flatten([b \in 1..Len(fd.bbs) |-> fd.bbs[b].insts])

\* generate, lines 105-169: the estimate, the lowering, and what the
\* asserts compare.
function_frame(fd) ==
    LET graph == CallGraphAdd(<<>>, fd.name, LayoutValues(fd))
        info == analysed_prologue_info(graph, fd.name)
        estimate == frame_estimate(fd, DOMAIN fd.values)
        e == [presence_table |-> <<>>,
              function_prologue_info |-> info,
              stack_frame_size |->
                  get_aligned_stack_size([info EXCEPT !.stack_size = estimate]),
              panicked |-> FALSE]
        lowered == frame_layout(fd, e, LayoutInsts(fd))
    IN  [estimate |-> estimate,
         stack_size |-> lowered.function_prologue_info.stack_size,
         args_stack_size |-> info.args_stack_size,
         presence_table |-> lowered.presence_table,
         panicked |-> lowered.panicked]

\* The statements of the functions whose frame is checked: every kind of
\* value that takes a slot, in code that is reached and in code that is not.
FrStatements ==
    LET x == LVal("x")
        inc == Assign("x", Bin("Add", x, Num(1)))
    IN  { Return(Bin("Add", x, Num(1))), Return(Num(0)),
          VarInit("y", Call("getint", <<>>)),
          Assign("x", Call("getint", <<>>)),
          ExprStmt(Call("putint", <<x>>)),
          inc,
          If(x, Return(x)),
          If(Num(1), Assign("y", Num(2))),
          IfElse(Bin("Le", x, Num(2)), Return(Num(1)), inc),
          While(Bin("Le", x, Num(2)), Block(<<Break, inc>>)),
          While(Num(1), Block(<<Continue, VarDecl("y")>>)) }

FrBodies ==
    { <<VarInit("x", Num(1))>> \o b :
        b \in UNION {[1..n -> FrStatements] : n \in 0..(MaxItems - 1)} }

FrPrograms ==
    {[name |-> "main", ret |-> "int", params |-> <<>>, body |-> b] : b \in FrBodies}
    \cup {[name |-> "f", ret |-> "int", params |-> <<"p">>, body |-> b] : b \in FrBodies}
    \cup {[name |-> "f", ret |-> "void", params |-> <<>>, body |-> b] : b \in FrBodies}

FrInit ==
    /\ ast \in FrPrograms
    /\ ir = <<>>
    /\ dce_pc = "source"
    /\ pass = <<>>
    /\ sweep = <<>>
    /\ runs = 0
    /\ ir_before = <<>>
    /\ ir_once = <<>>
    /\ fr = <<>>
    /\ LsIdle /\ AsmIdle /\ ScIdle /\ CeIdle /\ SymIdle /\ NgIdle /\ RpIdle /\ FeIdle /\ EmIdle /\ CmpIdle /\ TpIdle /\ DtIdle

\* FunctionData::generate on what the front-end made, or on what a run of
\* the dead-code pass left of it.
FrFunctionGenerate ==
    /\ dce_pc \in {"ir", "done"}
    /\ fr' = function_frame(ir)
    /\ dce_pc' = IF dce_pc = "ir" THEN "lowered" ELSE "lowered after the pass"
    /\ UNCHANGED <<ast, ir, pass, sweep, runs, ir_before, ir_once>>
    /\ UNCHANGED <<lsVars, asmVars, scVars, ceVars, symVars, ngVars, rpVars, feVars, emVars,
                   cmpVars, tpVars, dtVars>>

FrNext ==
    \/ FrontendGenerate
    \/ Mark
    \/ SweepBlock
    \/ WorklistStep
    \/ AppendReturns
    \/ FrFunctionGenerate

SpecFr == FrInit /\ [][FrNext]_vars

Lowered == dce_pc \in {"lowered", "lowered after the pass"}

\* C21: for every function the front-end and the dead-code pass produce,
\* the frame estimate (4 bytes for each Alloc, Load, Binary and Call value
\* of the data-flow graph) equals the total alloc_stack_storage accumulates
\* while the instructions of the layout are lowered, and the lowering
\* reaches the assert_eq on stack_size.
C21_EstimateIsAccumulated ==
    Lowered => ~fr.panicked /\ fr.estimate = fr.stack_size

\* A function has been lowered after a run of the pass that removed values
\* taking a slot from the layout and from the graph, and it has a Binary
\* and a Call left.
C21_Witness ==
    /\ dce_pc = "lowered after the pass"
    /\ fr.stack_size > 0
    /\ dfg_stack_size(ir_before, DOMAIN ir_before.values) > fr.estimate
    /\ \E v \in DOMAIN ir.values : ir.values[v].kind = "binary"
    /\ \E v \in DOMAIN ir.values : ir.values[v].kind = "call"

(***************************************************************************)
(* A lowered function being run.  An instruction of the IR does what the   *)
(* code the back-end emits for it does (generate_value): a Binary is the   *)
(* machine operation, a Branch is `bnez cond, true_bb; j false_bb`, a      *)
(* Call gives whatever the callee returns.                                 *)
(***************************************************************************)
\* What a call may return, and an uninitialised slot may hold.
ScInputs == {0, 2}

ScAtoms == {Num(0), Num(2), Call("getint", <<>>)}

ScOperands ==
    ScAtoms \cup {Land(a, b) : a, b \in ScAtoms} \cup {Lor(a, b) : a, b \in ScAtoms}

ScExprs ==
    {Land(a, b) : a, b \in ScOperands} \cup {Lor(a, b) : a, b \in ScOperands}

\* int main() { return E; }
ScPrograms ==
    {[name |-> "main", ret |-> "int", params |-> <<>>, body |-> <<Return(x)>>] :
        x \in ScExprs}

\* `div` that rounds down.
rv_div_rounding_down(a, b) ==
    IF b = 0 THEN -1
    ELSE IF div_overflows(a, b) THEN I32Min
    ELSE IF b = I32Min THEN (IF a > 0 THEN -1 ELSE trunc_div(a, b))
    ELSE IF b < 0 THEN wrapping_neg(a) \div Abs(b)
    ELSE a \div b

\* `div` of RV32: -1 for a zero divisor, the dividend on overflow
rv_div(a, b) ==
    IF b = 0 THEN -1
    ELSE IF div_overflows(a, b) THEN I32Min
    ELSE trunc_div(a, b)

\* `rem` of RV32: the dividend for a zero divisor, 0 on overflow
rv_rem(a, b) ==
    IF b = 0 THEN a
    ELSE IF div_overflows(a, b) THEN 0
    ELSE trunc_rem(a, b)

\* generate_value, ValueKind::Binary: what the instructions chosen compute
binary_result(op, a, b) ==
    CASE op = "NotEq" -> IF a # b THEN 1 ELSE 0
      [] op = "Eq" -> IF a = b THEN 1 ELSE 0
      [] op = "And" -> BitAnd(a, b)
      [] op = "Or" -> BitOr(a, b)
      [] op = "Gt" -> Bool(a > b)
      [] op = "Lt" -> Bool(a < b)
      [] op = "Ge" -> Bool(Bool(a < b) = 0)
      [] op = "Le" -> Bool(Bool(a > b) = 0)
      [] op = "Add" -> wrapping_add(a, b)
      [] op = "Sub" -> wrapping_sub(a, b)
      [] op = "Mul" -> wrapping_mul(a, b)
      [] op = "Div" -> rv_div(a, b)
      [] op = "Mod" -> rv_rem(a, b)

\* The value an operand has: an Integer is itself (`li`), an instruction's
\* result is what its execution left.
ScValueOf(id) ==
    IF sc_code.values[id].kind = "integer" THEN sc_code.values[id].n ELSE sc_vals[id]

ScInst == sc_code.values[sc_code.bbs[sc_bb].insts[sc_ip]]

ScAt(kind) ==
    /\ sc_status = "run"
    /\ sc_ip <= Len(sc_code.bbs[sc_bb].insts)
    /\ ScInst.kind = kind

ScSetResult(v) == sc_vals' = (sc_code.bbs[sc_bb].insts[sc_ip] :> v) @@ sc_vals

ScEnter(b) ==
    /\ sc_bb' = b
    /\ sc_ip' = 1
    /\ sc_visited' = sc_visited \cup {b}

ScInit ==
    /\ sc_prog \in ScPrograms
    /\ sc_code = <<>>
    /\ sc_status = "source"
    /\ sc_bb = 0
    /\ sc_ip = 0
    /\ sc_vals = <<>>
    /\ sc_mem = <<>>
    /\ sc_visited = {}
    /\ sc_calls = <<>>
    /\ sc_result = 0
    /\ LsIdle /\ AsmIdle /\ DceIdle /\ CeIdle /\ SymIdle /\ NgIdle /\ RpIdle /\ FeIdle /\ FrIdle /\ EmIdle /\ CmpIdle /\ TpIdle /\ DtIdle

\* The front-end lowers the function; execution begins at the entry block.
ScGenerate ==
    /\ sc_status = "source"
    /\ LET h == func_def_generate_ir(sc_prog)
       IN  IF Ok(h)
           THEN /\ sc_code' = FunctionData(sc_prog, h)
                /\ sc_status' = "run"
                /\ ScEnter(1)
           ELSE /\ sc_status' = "rejected"
                /\ UNCHANGED <<sc_code, sc_bb, sc_ip, sc_visited>>
    /\ UNCHANGED <<sc_prog, sc_vals, sc_mem, sc_calls, sc_result, notSc>>

ExecAlloc ==
    /\ ScAt("alloc")
    /\ sc_ip' = sc_ip + 1
    /\ UNCHANGED <<sc_prog, sc_code, sc_status, sc_bb, sc_vals, sc_mem, sc_visited,
                   sc_calls, sc_result, notSc>>

ExecStore ==
    /\ ScAt("store")
    /\ sc_mem' = (ScInst.dest :> ScValueOf(ScInst.value)) @@ sc_mem
    /\ sc_ip' = sc_ip + 1
    /\ UNCHANGED <<sc_prog, sc_code, sc_status, sc_bb, sc_vals, sc_visited,
                   sc_calls, sc_result, notSc>>

\* A slot never stored to holds anything.
ExecLoad ==
    /\ ScAt("load")
    /\ \E v \in (IF ScInst.src \in DOMAIN sc_mem THEN {sc_mem[ScInst.src]} ELSE ScInputs) :
          ScSetResult(v)
    /\ sc_ip' = sc_ip + 1
    /\ UNCHANGED <<sc_prog, sc_code, sc_status, sc_bb, sc_mem, sc_visited,
                   sc_calls, sc_result, notSc>>

ExecBinary ==
    /\ ScAt("binary")
    /\ ScSetResult(binary_result(ScInst.bop, ScValueOf(ScInst.lhs), ScValueOf(ScInst.rhs)))
    /\ sc_ip' = sc_ip + 1
    /\ UNCHANGED <<sc_prog, sc_code, sc_status, sc_bb, sc_mem, sc_visited,
                   sc_calls, sc_result, notSc>>

ExecCall ==
    /\ ScAt("call")
    /\ \E v \in ScInputs :
          /\ ScSetResult(v)
          /\ sc_calls' = Append(sc_calls, <<ScInst.callee, v>>)
    /\ sc_ip' = sc_ip + 1
    /\ UNCHANGED <<sc_prog, sc_code, sc_status, sc_bb, sc_mem, sc_visited,
                   sc_result, notSc>>

ExecBranch ==
    /\ ScAt("branch")
    /\ ScEnter(IF ScValueOf(ScInst.cond) # 0 THEN ScInst.true_bb ELSE ScInst.false_bb)
    /\ UNCHANGED <<sc_prog, sc_code, sc_status, sc_vals, sc_mem, sc_calls, sc_result,
                   notSc>>

ExecJump ==
    /\ ScAt("jump")
    /\ ScEnter(ScInst.target)
    /\ UNCHANGED <<sc_prog, sc_code, sc_status, sc_vals, sc_mem, sc_calls, sc_result,
                   notSc>>

ExecReturn ==
    /\ ScAt("return")
    /\ sc_result' = IF ScInst.value = 0 THEN 0 ELSE ScValueOf(ScInst.value)
    /\ sc_status' = "returned"
    /\ UNCHANGED <<sc_prog, sc_code, sc_bb, sc_ip, sc_vals, sc_mem, sc_visited,
                   sc_calls, notSc>>

ScNext ==
    \/ ScGenerate
    \/ ExecAlloc
    \/ ExecStore
    \/ ExecLoad
    \/ ExecBinary
    \/ ExecCall
    \/ ExecBranch
    \/ ExecJump
    \/ ExecReturn

SpecSc == ScInit /\ [][ScNext]_vars

(***************************************************************************)
(* A logical operator on operands without side effect, lowered and run.    *)
(***************************************************************************)
\* The operands: an expression and the number it stands for.
LgOperands ==
    { [e |-> Num(0), v |-> 0], [e |-> Num(1), v |-> 1], [e |-> Num(2), v |-> 2],
      [e |-> Num(I32Max), v |-> I32Max], [e |-> Neg(Num(1)), v |-> -1],
      [e |-> Neg(Num(I32Max)), v |-> -I32Max] }

\* `return a op b;` and `int x = a; int y = b; return x op y;`
LgBody(op, a, b, in_variables) ==
    LET join(l, r) == IF op = "Land" THEN Land(l, r) ELSE Lor(l, r)
    IN  IF in_variables
        THEN <<VarInit("x", a.e), VarInit("y", b.e), Return(join(LVal("x"), LVal("y")))>>
        ELSE <<Return(join(a.e, b.e))>>

LgPrograms ==
    {[name |-> "main", ret |-> "int", params |-> <<>>,
      body |-> LgBody(op, a, b, in_variables),
      op |-> op, a |-> a.v, b |-> b.v] :
        op \in {"Land", "Lor"}, a \in LgOperands, b \in LgOperands,
        in_variables \in BOOLEAN}

LgInit ==
    /\ sc_prog \in LgPrograms
    /\ sc_code = <<>>
    /\ sc_status = "source"
    /\ sc_bb = 0
    /\ sc_ip = 0
    /\ sc_vals = <<>>
    /\ sc_mem = <<>>
    /\ sc_visited = {}
    /\ sc_calls = <<>>
    /\ sc_result = 0
    /\ LsIdle /\ AsmIdle /\ DceIdle /\ CeIdle /\ SymIdle /\ NgIdle /\ RpIdle /\ FeIdle
    /\ FrIdle /\ EmIdle /\ CmpIdle /\ TpIdle /\ DtIdle

LgNext ==
    \/ ScGenerate
    \/ ExecAlloc
    \/ ExecStore
    \/ ExecLoad
    \/ ExecBinary
    \/ ExecReturn

SpecLg == LgInit /\ [][LgNext]_vars

\* The position of a value in the entry block, 0 if it is no instruction.
LgPosition(fd, v) ==
    LET at == {k \in 1..Len(fd.bbs[1].insts) : fd.bbs[1].insts[k] = v}
    IN  IF at = {} THEN 0 ELSE CHOOSE k \in at : TRUE

LgIsBinary(fd, v, op) ==
    v \in DOMAIN fd.values /\ fd.values[v].kind = "binary" /\ fd.values[v].bop = op

\* The values of the two operands, from the shape of the value returned:
\* And(NotEq(l, 0), NotEq(r, 0)) or NotEq(Or(l, r), 0); <<>> for another shape.
LgOperandValues(fd) ==
    LET ret == fd.values[fd.bbs[1].insts[Len(fd.bbs[1].insts)]]
        top == ret.value
    IN  IF LgIsBinary(fd, top, "And")
           /\ LgIsBinary(fd, fd.values[top].lhs, "NotEq")
           /\ LgIsBinary(fd, fd.values[top].rhs, "NotEq")
        THEN <<fd.values[fd.values[top].lhs].lhs, fd.values[fd.values[top].rhs].lhs>>
        ELSE IF LgIsBinary(fd, top, "NotEq") /\ LgIsBinary(fd, fd.values[top].lhs, "Or")
        THEN <<fd.values[fd.values[top].lhs].lhs, fd.values[fd.values[top].lhs].rhs>>
        ELSE <<>>

\* C24: for operands without side effect, of values a and b, the IR
\* emitted for `a && b` evaluates to 1 if both are non-zero and to 0
\* otherwise, the IR emitted for `a || b` to 1 if either is non-zero and to
\* 0 otherwise, and the instructions of the left operand precede those of
\* the right operand.
C24_LogicalResult ==
    sc_status = "returned" =>
        /\ sc_result = IF sc_prog.op = "Land"
                       THEN Bool(sc_prog.a # 0 /\ sc_prog.b # 0)
                       ELSE Bool(sc_prog.a # 0 \/ sc_prog.b # 0)
        /\ LET ops == LgOperandValues(sc_code)
           IN  /\ ops # <<>>
               /\ (LgPosition(sc_code, ops[1]) > 0 /\ LgPosition(sc_code, ops[2]) > 0)
                     => LgPosition(sc_code, ops[1]) < LgPosition(sc_code, ops[2])

\* `x && y` has run with x = 1 and y = 2, both loaded from their variables,
\* and given 1.
C24_Witness ==
    /\ sc_status = "returned"
    /\ sc_prog.op = "Land" /\ sc_prog.a = 1 /\ sc_prog.b = 2
    /\ sc_result = 1
    /\ LgPosition(sc_code, LgOperandValues(sc_code)[1]) > 0
    /\ LgPosition(sc_code, LgOperandValues(sc_code)[2]) > 0


(***************************************************************************)
(* Claims about the lowering of && and ||                                  *)
(***************************************************************************)
ScExpr == sc_prog.body[1].e

\* The lowering of the returned expression: its value, and for the
\* side-effecting strategy the values of a and b and the block of b.
ScTop ==
    LET entered == func_def_enter(sc_prog)
    IN  expr_generate_ir(entered.h, entered.e, ScExpr)

\* The value of x by the short-circuit rules when the calls return ins in
\* order, k of them used already: the value and the number used.
RECURSIVE RefEval(_, _, _)
RefEval(x, ins, k) ==
    CASE x.k = "Num" -> [val |-> x.n, k |-> k]
      [] x.k = "Call" -> [val |-> IF k < Len(ins) THEN ins[k + 1] ELSE 0, k |-> k + 1]
      [] x.k \in {"Land", "Lor"} ->
            LET a == RefEval(x.l, ins, k)
                b == RefEval(x.r, ins, a.k)
                skip == IF x.k = "Land" THEN a.val = 0 ELSE a.val # 0
            IN  IF skip THEN [val |-> IF x.k = "Land" THEN 0 ELSE 1, k |-> a.k]
                ELSE [val |-> IF b.val # 0 THEN 1 ELSE 0, k |-> b.k]

ScResults == [i \in 1..Len(sc_calls) |-> sc_calls[i][2]]

\* C7: when `a && b` (`a || b`) lowered with the side-effecting strategy
\* has been run, the block of b was entered, and the value of b computed,
\* only if a was not 0 (was 0), and then b was evaluated; the result is
\* 0 (1) if a was 0 (was not), and b != 0 otherwise; and the calls made
\* are those the short-circuit rules make.
C7_ShortCircuit ==
    (sc_status = "returned" /\ has_side_effect(ScExpr)) =>
        LET top == ScTop
            a == ScValueOf(top.lhs)
            skip == IF ScExpr.k = "Land" THEN a = 0 ELSE a # 0
            ref == RefEval(ScExpr, ScResults, 0)
        IN  /\ top.bb_branch \in sc_visited => ~skip
            /\ top.rhs \in DOMAIN sc_vals => ~skip
            /\ ~skip => (sc_code.values[top.rhs].kind = "integer"
                          \/ top.rhs \in DOMAIN sc_vals)
            /\ sc_result = IF skip THEN (IF ScExpr.k = "Land" THEN 0 ELSE 1)
                           ELSE (IF ScValueOf(top.rhs) # 0 THEN 1 ELSE 0)
            /\ ref.val = sc_result
            /\ ref.k = Len(sc_calls)

\* `getint() && getint() || getint()` has returned 1 after two calls: the
\* first gave 0, so the b of && was skipped and the b of || was run.
C7_Witness ==
    /\ sc_status = "returned"
    /\ ScExpr = Lor(Land(Call("getint", <<>>), Call("getint", <<>>)), Call("getint", <<>>))
    /\ sc_calls = << <<"getint", 0>>, <<"getint", 2>> >>
    /\ ScTop.bb_branch \in sc_visited
    /\ sc_result = 1

(***************************************************************************)
(* A constant declaration `const int k = E;` in the body of main, after    *)
(* `const int c = -2147483647 - 1; const int d = -1; int v;`, then         *)
(* `return E;` and a run of the function.                                  *)
(***************************************************************************)
CePrelude ==
    <<ConstDecl("c", Bin("Sub", Neg(Num(I32Max)), Num(1))),
      ConstDecl("d", Neg(Num(1))),
      VarDecl("v")>>

\* c and d are constants, v is a variable, u is not declared
CeAtoms == {Num(0), Num(1), Num(2), Num(I32Max),
            LVal("c"), LVal("d"), LVal("v"), LVal("u")}

CeBinaryOps == {"Add", "Sub", "Mul", "Div", "Mod", "Lt", "Gt", "Le", "Ge", "Eq", "NotEq"}

\* the operators of an expression in an expression
CeOuterOps == {"Add", "Mul", "Div", "Mod", "Le"}

CeUnary(S) == {Pos(x) : x \in S} \cup {Neg(x) : x \in S} \cup {Not(x) : x \in S}

CeBinary(ops, L, R) ==
    {Bin(op, l, r) : op \in ops, l \in L, r \in R}
        \cup {Land(l, r) : l \in L, r \in R} \cup {Lor(l, r) : l \in L, r \in R}

CeExprs ==
    CeAtoms \cup CeUnary(CeAtoms) \cup CeBinary(CeBinaryOps, CeAtoms, CeAtoms)
        \cup CeUnary(CeUnary(CeAtoms))
        \cup CeBinary(CeOuterOps, CeUnary(CeAtoms), CeAtoms)
        \cup CeBinary(CeOuterOps, CeAtoms, CeUnary(CeAtoms))

CeMain == [name |-> "main", ret |-> "int", params |-> <<>>, body |-> <<>>]

CeInit ==
    /\ ce_pc = "source"
    /\ ce_def \in {[x |-> "k", e |-> x] : x \in CeExprs}
    /\ \E checks \in BOOLEAN :
          LET entered == func_def_enter(CeMain)
              prelude == block_generate_ir(
                             [entered.h EXCEPT !.overflow_checks = checks],
                             entered.e, CePrelude)
          IN  ce_h = prelude.h /\ ce_e = prelude.e
    /\ ce_eval = <<>>
    /\ ce_ip = 0
    /\ ce_vals = <<>>
    /\ ce_result = 0
    /\ LsIdle /\ AsmIdle /\ DceIdle /\ ScIdle /\ SymIdle /\ NgIdle /\ RpIdle /\ FeIdle /\ FrIdle /\ EmIdle /\ CmpIdle /\ TpIdle /\ DtIdle

\* Decl::ConstDecl, lines 128-142
CeConstDecl ==
    /\ ce_pc = "source"
    /\ LET eval_result == try_const_eval(ce_h, ce_e.symbol_table, ce_def.e)
           after == stmt_generate_ir(ce_h, ce_e, ConstDecl(ce_def.x, ce_def.e))
       IN  /\ ce_eval' = eval_result
           /\ ce_h' = after.h
           /\ ce_e' = after.e
           /\ ce_pc' = CASE after.h.err = "none" -> "declared"
                         [] after.h.err = "panic" -> "aborted"
                         [] OTHER -> "failed"
    /\ UNCHANGED <<ce_def, ce_ip, ce_vals, ce_result, notCe>>

\* Stmt::Return, lines 179-184, of the expression of the constant
CeReturn ==
    /\ ce_pc = "declared"
    /\ LET after == stmt_generate_ir(ce_h, ce_e, Return(ce_def.e))
       IN  /\ ce_h' = after.h
           /\ ce_e' = after.e
    /\ ce_pc' = "run"
    /\ ce_ip' = 1
    /\ UNCHANGED <<ce_def, ce_eval, ce_vals, ce_result, notCe>>

CeInst == ce_h.values[ce_h.bbs[1].insts[ce_ip]]

CeAt(kind) ==
    /\ ce_pc = "run"
    /\ ce_ip <= Len(ce_h.bbs[1].insts)
    /\ CeInst.kind = kind

CeValueOf(id) ==
    IF ce_h.values[id].kind = "integer" THEN ce_h.values[id].n ELSE ce_vals[id]

\* generate_value, ValueKind::Alloc: a slot, no instruction
CeAlloc ==
    /\ CeAt("alloc")
    /\ ce_ip' = ce_ip + 1
    /\ UNCHANGED <<ce_pc, ce_def, ce_h, ce_e, ce_eval, ce_vals, ce_result, notCe>>

\* generate_value, ValueKind::Binary
CeBinaryInst ==
    /\ CeAt("binary")
    /\ ce_vals' = (ce_h.bbs[1].insts[ce_ip] :>
                      binary_result(CeInst.bop, CeValueOf(CeInst.lhs), CeValueOf(CeInst.rhs)))
                  @@ ce_vals
    /\ ce_ip' = ce_ip + 1
    /\ UNCHANGED <<ce_pc, ce_def, ce_h, ce_e, ce_eval, ce_result, notCe>>

\* generate_value, ValueKind::Return
CeReturnInst ==
    /\ CeAt("return")
    /\ ce_result' = CeValueOf(CeInst.value)
    /\ ce_pc' = "returned"
    /\ UNCHANGED <<ce_def, ce_h, ce_e, ce_eval, ce_ip, ce_vals, notCe>>

CeNext == CeConstDecl \/ CeReturn \/ CeAlloc \/ CeBinaryInst \/ CeReturnInst

SpecCe == CeInit /\ [][CeNext]_vars

RECURSIVE SubExprs(_)
SubExprs(x) ==
    {x} \cup CASE x.k \in {"Pos", "Neg", "Not"} -> SubExprs(x.e)
              [] x.k \in {"Bin", "Land", "Lor"} -> SubExprs(x.l) \cup SubExprs(x.r)
              [] OTHER -> {}

\* the constant's expression as try_const_eval sees it: its value in the
\* scope of the declaration (the name declared does not occur in it)
CeEval(x) == try_const_eval(ce_h, ce_e.symbol_table, x)

IsDivMod(x) == x.k = "Bin" /\ x.op \in {"Div", "Mod"}

IsNonConstRef(x) ==
    x.k = "LVal" /\ lookup(ce_h, ce_e.symbol_table, x.x).t # "Const"

\* no value was produced and the name of the constant is not bound
CeNothingBound ==
    /\ ce_eval.t # "Ok"
    /\ ce_pc \in {"failed", "aborted"}
    /\ lookup(ce_h, ce_e.symbol_table, ce_def.x) = NotFound

\* C11: once the declaration has been lowered: every `/` or `%` in the
\* expression whose left operand const-evaluates to a value and whose right
\* operand const-evaluates to 0 gives ConstEvalDivZero, every reference to
\* a name that is unbound or bound as Var gives BindingNonConstExpr, and in
\* both cases no value is produced and the constant is not bound.
C11_ConstEvalErrors ==
    ce_pc # "source" =>
        \A x \in SubExprs(ce_def.e) :
            /\ (IsDivMod(x) /\ CeEval(x.l).t = "Ok" /\ CeEval(x.r) = EvalOk(0)) =>
                   (CeEval(x) = EvalErr("ConstEvalDivZero") /\ CeNothingBound)
            /\ IsNonConstRef(x) =>
                   (CeEval(x) = EvalErr("BindingNonConstExpr") /\ CeNothingBound)

\* C11 as stated: every `/` or `%` whose right operand const-evaluates to 0
\* gives ConstEvalDivZero, whatever its left operand does.
C11_AsStated ==
    ce_pc # "source" =>
        \A x \in SubExprs(ce_def.e) :
            /\ (IsDivMod(x) /\ CeEval(x.r) = EvalOk(0)) =>
                   (CeEval(x) = EvalErr("ConstEvalDivZero") /\ CeNothingBound)
            /\ IsNonConstRef(x) =>
                   (CeEval(x) = EvalErr("BindingNonConstExpr") /\ CeNothingBound)

\* `const int k = c % !1;` was refused with ConstEvalDivZero
C11_Witness ==
    /\ ce_pc = "failed"
    /\ ce_def.e = Bin("Mod", LVal("c"), Not(Num(1)))
    /\ ce_eval = EvalErr("ConstEvalDivZero")
    /\ ce_h.err = "ConstEvalDivZero"
    /\ CeNothingBound

\* C12: try_const_eval gives a value or an error for every expression: the
\* compiler never aborts in it.
C12_ConstEvalTotal == ce_pc # "aborted"

\* C13: the value the lowered `return E` gives when it runs is the value
\* try_const_eval gave for E.
C13_FoldingSound == ce_pc = "returned" => ce_result = ce_eval.v

\* `const int k = -1 / 2;` bound 0 and `return -1 / 2;` gave 0 when run
C13_Witness ==
    /\ ce_pc = "returned"
    /\ ce_def.e = Bin("Div", Neg(Num(1)), Num(2))
    /\ ce_eval = EvalOk(0)
    /\ ce_result = 0

(***************************************************************************)
(* frontend/symbol.rs and the scopes of IREnvironment: one table per       *)
(* scope, a child made by enter_scope, left when the environment made for  *)
(* it is dropped at the end of Stmt::Block.                                *)
(***************************************************************************)
\* Scopes made in one run (at most).
MaxScopes == 3

SymNames == {"x", "y"}
SymEntries == {ConstEntry(1), VarEntry(1)}

SymCur == sym_stack[Len(sym_stack)].scope

\* name -> what lookup gives for it in a scope
SymView(h, scope) == [n \in SymNames |-> lookup(h, scope, n)]

\* IREnvironment::new: NestedSymbolTable::new
SymInit ==
    /\ sym_h = [scopes |-> << [parent |-> 0, entries |-> <<>>] >>, err |-> "none"]
    /\ sym_stack = << [scope |-> 1, seen |-> <<>>] >>
    /\ sym_last = [op |-> "new"]
    /\ LsIdle /\ AsmIdle /\ DceIdle /\ ScIdle /\ CeIdle /\ NgIdle /\ RpIdle /\ FeIdle /\ FrIdle /\ EmIdle /\ CmpIdle /\ TpIdle /\ DtIdle

\* IREnvironment::bind.  The caller of the model goes on after an error:
\* the table is what the claims are about.
SymBind ==
    /\ \E ident \in SymNames, entry \in SymEntries :
          LET after == bind(sym_h, SymCur, ident, entry)
          IN  /\ sym_h' = [after EXCEPT !.err = "none"]
              /\ sym_last' = [op |-> "bind", ident |-> ident, entry |-> entry,
                              scope |-> SymCur, err |-> after.err, before |-> sym_h]
    /\ UNCHANGED <<sym_stack, notSym>>

\* IREnvironment::lookup_ident
SymLookup ==
    /\ \E ident \in SymNames :
          sym_last' = [op |-> "lookup", ident |-> ident, scope |-> SymCur,
                       result |-> lookup(sym_h, SymCur, ident), before |-> sym_h]
    /\ UNCHANGED <<sym_h, sym_stack, notSym>>

\* IREnvironment::enter_scope, as Stmt::Block calls it
SymEnterScope ==
    /\ Len(sym_h.scopes) < MaxScopes
    /\ sym_h' = new_child(sym_h, SymCur)
    /\ sym_stack' = Append([sym_stack EXCEPT ![Len(sym_stack)].seen = SymView(sym_h, SymCur)],
                           [scope |-> Len(sym_h.scopes) + 1, seen |-> <<>>])
    /\ sym_last' = [op |-> "enter", scope |-> SymCur, before |-> sym_h]
    /\ UNCHANGED notSym

\* The end of Stmt::Block: new_env is dropped, env is used again.
SymExitScope ==
    /\ Len(sym_stack) > 1
    /\ sym_stack' = SubSeq(sym_stack, 1, Len(sym_stack) - 1)
    /\ sym_last' = [op |-> "exit", scope |-> SymCur, before |-> sym_h]
    /\ UNCHANGED <<sym_h, notSym>>

SymNext == SymBind \/ SymLookup \/ SymEnterScope \/ SymExitScope

SpecSym == SymInit /\ [][SymNext]_vars

RECURSIVE Ancestors(_, _)
Ancestors(h, scope) ==
    IF h.scopes[scope].parent = 0 THEN {}
    ELSE {h.scopes[scope].parent} \cup Ancestors(h, h.scopes[scope].parent)

SymBound(h, scope, ident) == ident \in DOMAIN h.scopes[scope].entries

SymShadows(h, scope, ident) ==
    \E a \in Ancestors(h, scope) : SymBound(h, a, ident)

\* C14: a bind of a name that an ancestor scope binds and the current scope
\* does not succeeds, leaves the entries of every ancestor as they were and
\* makes lookup in the child give the child's entry; an environment that
\* waits for an inner scope sees what it saw when the scope was entered,
\* also right after the scope is left.
C14_Shadowing ==
    /\ (/\ sym_last.op = "bind"
        /\ SymShadows(sym_last.before, sym_last.scope, sym_last.ident)
        /\ ~SymBound(sym_last.before, sym_last.scope, sym_last.ident)) =>
            /\ sym_last.err = "none"
            /\ \A a \in Ancestors(sym_h, sym_last.scope) :
                  sym_h.scopes[a] = sym_last.before.scopes[a]
            /\ lookup(sym_h, sym_last.scope, sym_last.ident) = sym_last.entry
    /\ (sym_last.op = "lookup" /\ SymBound(sym_h, sym_last.scope, sym_last.ident)) =>
            sym_last.result = sym_h.scopes[sym_last.scope].entries[sym_last.ident]
    /\ \A i \in 1..(Len(sym_stack) - 1) :
            SymView(sym_h, sym_stack[i].scope) = sym_stack[i].seen
    /\ sym_last.op = "exit" =>
            SymView(sym_h, SymCur) = sym_stack[Len(sym_stack)].seen

\* an inner scope that bound x over the x of its parent has been left, and
\* x is the parent's again
C14_Witness ==
    /\ sym_last.op = "exit"
    /\ SymBound(sym_h, sym_last.scope, "x")
    /\ SymBound(sym_h, SymCur, "x")
    /\ sym_h.scopes[sym_last.scope].entries["x"] # sym_h.scopes[SymCur].entries["x"]
    /\ lookup(sym_h, SymCur, "x") = sym_h.scopes[SymCur].entries["x"]

\* C15: bind fails with MultipleDefinitionsForIdentifier exactly when the
\* current scope itself has the name; then no table has changed; otherwise
\* the entry is added to the current scope and nothing else changes.
C15_BindDuplicate ==
    sym_last.op = "bind" =>
        /\ sym_last.err \in {"none", "MultipleDefinitionsForIdentifier"}
        /\ (sym_last.err = "MultipleDefinitionsForIdentifier")
              <=> SymBound(sym_last.before, sym_last.scope, sym_last.ident)
        /\ sym_last.err # "none" => sym_h.scopes = sym_last.before.scopes
        /\ sym_last.err = "none" =>
              /\ \A s \in (1..Len(sym_h.scopes)) \ {sym_last.scope} :
                    sym_h.scopes[s] = sym_last.before.scopes[s]
              /\ sym_h.scopes[sym_last.scope].parent
                    = sym_last.before.scopes[sym_last.scope].parent
              /\ DOMAIN sym_h.scopes[sym_last.scope].entries
                    = DOMAIN sym_last.before.scopes[sym_last.scope].entries
                          \cup {sym_last.ident}
              /\ \A n \in DOMAIN sym_h.scopes[sym_last.scope].entries :
                    sym_h.scopes[sym_last.scope].entries[n]
                        = IF n = sym_last.ident THEN sym_last.entry
                          ELSE sym_last.before.scopes[sym_last.scope].entries[n]

\* a second bind of x in a scope that has x and y was refused
C15_Witness ==
    /\ sym_last.op = "bind"
    /\ sym_last.ident = "x"
    /\ sym_last.err = "MultipleDefinitionsForIdentifier"
    /\ sym_last.entry # sym_h.scopes[sym_last.scope].entries["x"]
    /\ SymBound(sym_h, sym_last.scope, "y")

(***************************************************************************)
(* util/name_generator.rs.  A label is the characters of its prefix        *)
(* followed by the decimal digits of the counter, as `format!("{}{}")`     *)
(* writes them.                                                            *)
(***************************************************************************)
\* Calls made on one generator (at most).
MaxCalls == 11

Digit(d) ==
    CASE d = 0 -> "0" [] d = 1 -> "1" [] d = 2 -> "2" [] d = 3 -> "3" [] d = 4 -> "4"
      [] d = 5 -> "5" [] d = 6 -> "6" [] d = 7 -> "7" [] d = 8 -> "8" [] d = 9 -> "9"

Digits == {Digit(d) : d \in 0..9}

\* Display of u32
RECURSIVE Decimal(_)
Decimal(n) == IF n < 10 THEN <<Digit(n)>> ELSE Append(Decimal(n \div 10), Digit(n % 10))

\* format!("{}{}", prefix, counter)
format(prefix, counter) == prefix \o Decimal(counter)

\* A generate_group that does not count.
name_generator_generate_group_not_counting(counter, prefixes) ==
    [group |-> [i \in DOMAIN prefixes |-> format(prefixes[i], counter)],
     counter |-> counter]

\* NameGenerator::generate_group: the labels and the counter afterwards
name_generator_generate_group(counter, prefixes) ==
    [group |-> [i \in DOMAIN prefixes |-> format(prefixes[i], counter)],
     counter |-> counter + 1]

\* NameGenerator::generate
name_generator_generate(counter, prefix) ==
    [name |-> format(prefix, counter), counter |-> counter + 1]

\* The prefixes of the calls: "L", "L1", and the group "L", "M".
NgPrefixes == {<<"L">>, <<"L", "1">>}
NgGroups == {<< <<"L">>, <<"M">> >>}

\* NameGenerator::new
NgInit ==
    /\ ng_counter = 0
    /\ ng_log = <<>>
    /\ LsIdle /\ AsmIdle /\ DceIdle /\ ScIdle /\ CeIdle /\ SymIdle /\ RpIdle /\ FeIdle /\ FrIdle /\ EmIdle /\ CmpIdle /\ TpIdle /\ DtIdle

NgGenerate ==
    /\ Len(ng_log) < MaxCalls
    /\ \E prefix \in NgPrefixes :
          LET r == name_generator_generate(ng_counter, prefix)
          IN  /\ ng_counter' = r.counter
              /\ ng_log' = Append(ng_log, [fn |-> "generate", prefixes |-> <<prefix>>,
                                           labels |-> <<r.name>>, before |-> ng_counter])
    /\ UNCHANGED notNg

NgGenerateGroup ==
    /\ Len(ng_log) < MaxCalls
    /\ \E prefixes \in NgGroups :
          LET r == name_generator_generate_group(ng_counter, prefixes)
          IN  /\ ng_counter' = r.counter
              /\ ng_log' = Append(ng_log, [fn |-> "generate_group", prefixes |-> prefixes,
                                           labels |-> r.group, before |-> ng_counter])
    /\ UNCHANGED notNg

NgNext == NgGenerate \/ NgGenerateGroup

SpecNg == NgInit /\ [][NgNext]_vars

EndsInDigit(prefix) == prefix # <<>> /\ prefix[Len(prefix)] \in Digits

\* the counter has gone up by one per call and the labels of each call
\* carry the number the counter had when it was made
NgCounts ==
    /\ ng_counter = Len(ng_log)
    /\ \A i \in 1..Len(ng_log) :
          /\ ng_log[i].before = i - 1
          /\ Len(ng_log[i].labels) = Len(ng_log[i].prefixes)
          /\ \A k \in 1..Len(ng_log[i].labels) :
                ng_log[i].labels[k] = ng_log[i].prefixes[k] \o Decimal(i - 1)

\* C17: the counter goes up by exactly one per call, the labels of one
\* generate_group call carry the same number, and two different calls
\* never return the same label, for prefixes that do not end in a digit.
C17_LabelsUnique ==
    /\ NgCounts
    /\ \A i, j \in 1..Len(ng_log) : i < j =>
          \A k \in 1..Len(ng_log[i].labels), l \in 1..Len(ng_log[j].labels) :
              (~EndsInDigit(ng_log[i].prefixes[k]) /\ ~EndsInDigit(ng_log[j].prefixes[l]))
                  => ng_log[i].labels[k] # ng_log[j].labels[l]

\* C17 as stated: two different calls never return the same label,
\* whatever the prefixes.
C17_AsStated ==
    /\ NgCounts
    /\ \A i, j \in 1..Len(ng_log) : i < j =>
          \A k \in 1..Len(ng_log[i].labels), l \in 1..Len(ng_log[j].labels) :
              ng_log[i].labels[k] # ng_log[j].labels[l]

\* the eleventh call has returned "L10" after a group "L1", "M1"
C17_Witness ==
    /\ Len(ng_log) = 11
    /\ ng_log[2].fn = "generate_group"
    /\ ng_log[2].labels = << <<"L", "1">>, <<"M", "1">> >>
    /\ ng_log[11].fn = "generate"
    /\ ng_log[11].labels = << <<"L", "1", "0">> >>
    /\ \A i \in 1..11 : \A k \in 1..Len(ng_log[i].prefixes) :
          ~EndsInDigit(ng_log[i].prefixes[k])

(***************************************************************************)
(* backend/register.rs: one RVRegisterPool, next and release called in any *)
(* order, release with any register.                                       *)
(***************************************************************************)
\* RVRegisterPool::new_temp_pool
RpInit ==
    /\ rp_avail = new_temp_pool
    /\ rp_out = {}
    /\ rp_last = [op |-> "new"]
    /\ LsIdle /\ AsmIdle /\ DceIdle /\ ScIdle /\ CeIdle /\ SymIdle /\ NgIdle /\ FeIdle /\ FrIdle /\ EmIdle /\ CmpIdle /\ TpIdle /\ DtIdle

\* RVRegisterPool::next with a register to give
RpNextSome ==
    /\ \E register \in pool_next(rp_avail) :
          /\ rp_avail' = rp_avail \ {register}
          /\ rp_out' = rp_out \cup {register}
          /\ rp_last' = [op |-> "next", register |-> register,
                         avail |-> rp_avail, out |-> rp_out]
    /\ UNCHANGED notRp

\* RVRegisterPool::next of an empty pool: None
RpNextNone ==
    /\ pool_next(rp_avail) = {}
    /\ rp_last' = [op |-> "next", register |-> "none", avail |-> rp_avail, out |-> rp_out]
    /\ UNCHANGED <<rp_avail, rp_out, notRp>>

\* RVRegisterPool::release
RpRelease ==
    /\ \E register \in RVRegister :
          /\ rp_avail' = pool_release(rp_avail, register)
          /\ rp_out' = rp_out \ {register}
          /\ rp_last' = [op |-> "release", register |-> register,
                         avail |-> rp_avail, out |-> rp_out]
    /\ UNCHANGED notRp

RpNext == RpNextSome \/ RpNextNone \/ RpRelease

SpecRp == RpInit /\ [][RpNext]_vars

\* C18: next gives a register that was available and removes it, never one
\* that is handed out and not released; release puts back a register iff
\* it is one of t0..t6 and changes nothing for any other; the available
\* registers are always among t0..t6.
C18_PoolDiscipline ==
    /\ rp_avail \subseteq Temps
    /\ rp_avail \cap rp_out = {}
    /\ (rp_last.op = "next" /\ rp_last.register # "none") =>
          /\ rp_last.register \in rp_last.avail
          /\ rp_last.register \notin rp_last.out
          /\ rp_avail = rp_last.avail \ {rp_last.register}
    /\ (rp_last.op = "next" /\ rp_last.register = "none") =>
          (rp_last.avail = {} /\ rp_avail = {})
    /\ rp_last.op = "release" =>
          rp_avail = IF rp_last.register \in Temps
                     THEN rp_last.avail \cup {rp_last.register}
                     ELSE rp_last.avail

\* a0 has been released to a pool that has given out t0..t6 but t3: the
\* pool is as it was
C18_Witness ==
    /\ rp_last.op = "release"
    /\ rp_last.register = "a0"
    /\ rp_avail = {"t3"}
    /\ rp_out = Temps \ {"t3"}

(***************************************************************************)
(* frontend/generate_ir.rs, one call of generate_ir at a time.  fe_stack   *)
(* is the call stack of Block::generate_ir and Stmt::generate_ir: a frame  *)
(* is [at, env, s, items, own, bbs, seen, table, scopes], where at is the  *)
(* point the call stands at ("items": the loop of Block::generate_ir;      *)
(* "call": Stmt::generate_ir about to run; "block", "then", "if_then",     *)
(* "if_else", "body": a statement waiting for the part it has called), env *)
(* is the index in fe_envs of the environment the call was given by        *)
(* `&mut`, own the index of the environment it made for the part it        *)
(* called, bbs the blocks it created, seen and table what its environment  *)
(* saw and which table it had when the statement began, and scopes the     *)
(* number of symbol tables there were then.  An error leaves the stack as  *)
(* it was when the error was returned: `?` hands it up to main, which      *)
(* stops on it.                                                            *)
(***************************************************************************)
FeNames == {"x", "y", "c", "u", "main"}

\* A statement grammar keeps declarations out of the bodies of if and while:
\* a Decl is a BlockItem only (ast.rs), so it is written in a Block.
FeInner0 == {Assign("x", Num(1)), Assign("y", Num(2)), Break, Continue}

FeInner1 ==
    FeInner0
    \cup {Block(<<VarDecl("y"), s>>) : s \in FeInner0}
    \cup {Block(<<VarDecl("x"), Assign("x", Num(1))>>)}
    \cup {If(Num(1), s) : s \in FeInner0}
    \cup {While(Num(1), s) : s \in FeInner0}

FeConstructs ==
    {If(Num(1), s) : s \in FeInner1}
    \cup {IfElse(Num(1), s, t) : s \in FeInner1, t \in {Assign("x", Num(1)), Continue}}
    \cup {While(Num(1), s) : s \in FeInner1}
    \cup {Block(<<VarDecl("y"), s>>) : s \in FeInner1}

\* Assignments to a Var, a Const, a Func and an unbound name, of expressions
\* that lower, that fail, and that store on their own (a logical operator
\* over calls).
FeAssigns ==
    LET both == Land(Call("getint", <<>>), Call("getint", <<>>))
    IN  {Assign(x, e) : x \in {"x", "c", "main", "u"},
                        e \in {Num(1), LVal("x"), LVal("u"), LVal("main"), both}}

FeItems == FeAssigns \cup FeConstructs \cup {Break, Continue}

FePreludes ==
    { <<VarDecl("x"), ConstDecl("c", Num(1))>>,
      <<VarInit("x", Num(0)), VarDecl("y"), ConstDecl("c", Num(1))>> }

FeAfter == {Assign("y", Num(2)), Continue}

FePrograms ==
    {[name |-> "main", ret |-> ret, params |-> <<>>, body |-> p \o <<t, a>>]
     : ret \in {"int", "void"}, p \in FePreludes, t \in FeItems, a \in FeAfter}

FeView(h, scope) == [n \in FeNames |-> lookup(h, scope, n)]

Frame(at, i, s, items) ==
    [at |-> at, env |-> i, s |-> s, items |-> items, own |-> 0, bbs |-> <<>>,
     seen |-> <<>>, table |-> 0, scopes |-> 0]

\* The frame of a statement that has called a part of itself.
Waiting(frame, at, e, own, bbs) ==
    [frame EXCEPT !.at = at, !.own = own, !.bbs = bbs,
                  !.seen = FeView(fe_h, e.symbol_table),
                  !.table = e.symbol_table, !.scopes = Len(fe_h.scopes)]

FeTop == fe_stack[Len(fe_stack)]
FeCallers == SubSeq(fe_stack, 1, Len(fe_stack) - 1)
FeAt(at) == fe_pc = "lowering" /\ fe_stack # <<>> /\ FeTop.at = at
FeCalled(kinds) == FeAt("call") /\ FeTop.s.k \in kinds
FeDid(op) ==
    [op |-> op, s |-> FeTop.s, env |-> FeTop.env, h |-> fe_h, e |-> fe_envs[FeTop.env],
     seen |-> FeTop.seen, table |-> FeTop.table, scopes |-> FeTop.scopes]
FeGoOn(h) == IF Ok(h) THEN "lowering" ELSE "rejected"

FeInit ==
    /\ fe_pc = "source"
    /\ fe_f \in FePrograms
    /\ fe_h = <<>> /\ fe_envs = <<>> /\ fe_stack = <<>> /\ fe_last = [op |-> "source"]
    /\ LsIdle /\ AsmIdle /\ DceIdle /\ ScIdle /\ CeIdle /\ SymIdle /\ NgIdle /\ RpIdle /\ FrIdle /\ EmIdle /\ CmpIdle /\ TpIdle /\ DtIdle

\* FuncDef::generate_ir, lines 44-86: up to the call of the body.
FeFuncDefEnter ==
    /\ fe_pc = "source"
    /\ \E entered \in {func_def_enter(fe_f)} :
          /\ fe_h' = entered.h
          /\ fe_envs' = <<entered.e>>
          /\ fe_stack' = <<Frame("items", 1, <<>>, fe_f.body)>>
          /\ fe_last' = [op |-> "func", h |-> entered.h]
    /\ fe_pc' = "lowering"
    /\ UNCHANGED <<fe_f, notFe>>

\* FuncDef::generate_ir, lines 88-96: the return a void function ends with.
FeFuncDefLeave ==
    /\ fe_pc = "lowering" /\ fe_stack = <<>>
    /\ fe_h' = IF fe_f.ret = "void" THEN build(fe_h, fe_envs[1], ReturnV(0)) ELSE fe_h
    /\ fe_last' = [op |-> "end", h |-> fe_h]
    /\ fe_pc' = "done"
    /\ UNCHANGED <<fe_f, fe_envs, fe_stack, notFe>>

\* Block::generate_ir, lines 102-109: the next item is lowered in the
\* block's environment.
FeBlockItem ==
    /\ FeAt("items") /\ FeTop.items # <<>>
    /\ fe_stack' = FeCallers \o <<[FeTop EXCEPT !.items = Tail(@)],
                                  Frame("call", FeTop.env, Head(FeTop.items), <<>>)>>
    /\ fe_last' = [op |-> "item", h |-> fe_h]
    /\ UNCHANGED <<fe_pc, fe_f, fe_h, fe_envs, notFe>>

\* Block::generate_ir returns when the items are done.
FeBlockEnd ==
    /\ FeAt("items") /\ FeTop.items = <<>>
    /\ fe_stack' = FeCallers
    /\ fe_last' = [op |-> "items", h |-> fe_h]
    /\ UNCHANGED <<fe_pc, fe_f, fe_h, fe_envs, notFe>>

\* A statement that calls no statement is lowered in one step.
FeSimple(op) ==
    /\ \E r \in {stmt_generate_ir(fe_h, fe_envs[FeTop.env], FeTop.s)} :
          /\ fe_h' = r.h
          /\ fe_envs' = [fe_envs EXCEPT ![FeTop.env] = r.e]
          /\ fe_stack' = IF Ok(r.h) THEN FeCallers ELSE fe_stack
          /\ fe_pc' = FeGoOn(r.h)
    /\ fe_last' = FeDid(op)
    /\ UNCHANGED <<fe_f, notFe>>

\* Decl::generate_ir, lines 126-171
FeDecl ==
    /\ FeCalled({"ConstDecl", "VarDecl", "VarInit"})
    /\ FeSimple("decl")

\* Stmt::Assign, lines 185-204
FeAssign ==
    /\ FeCalled({"Assign"})
    /\ FeSimple("assign")

\* Stmt::Break, lines 299-307
FeBreak ==
    /\ FeCalled({"Break"})
    /\ FeSimple("break")

\* Stmt::Continue, lines 308-316
FeContinue ==
    /\ FeCalled({"Continue"})
    /\ FeSimple("continue")

\* Stmt::Block, lines 211-214: enter_scope and the call of the block.
FeBlockEnter ==
    /\ FeCalled({"Block"})
    /\ \E new_env \in {enter_scope(fe_h, fe_envs[FeTop.env])} :
          /\ fe_h' = new_env.h
          /\ fe_envs' = Append(fe_envs, new_env.e)
          /\ fe_stack' =
                FeCallers \o
                <<Waiting(FeTop, "block", fe_envs[FeTop.env], Len(fe_envs) + 1, <<>>),
                  Frame("items", Len(fe_envs) + 1, <<>>, FeTop.s.items)>>
    /\ fe_last' = FeDid("enter")
    /\ UNCHANGED <<fe_pc, fe_f, notFe>>

\* Stmt::Block, lines 216-219: `env.context = new_env.context`; new_env
\* is dropped.
FeBlockLeave ==
    /\ FeAt("block")
    /\ fe_envs' = [SubSeq(fe_envs, 1, FeTop.own - 1)
                     EXCEPT ![FeTop.env].cur = fe_envs[FeTop.own].cur]
    /\ fe_stack' = FeCallers
    /\ fe_last' = FeDid("leave")
    /\ UNCHANGED <<fe_pc, fe_f, fe_h, notFe>>

\* Stmt::If, lines 221-232: the condition, the blocks, the branch, and
\* the call of then_stmt in then_env.
FeIfEnter ==
    /\ FeCalled({"If"})
    /\ \E cond_val \in {expr_generate_ir(fe_h, fe_envs[FeTop.env], FeTop.s.c)} :
          LET then_bb == Len(cond_val.h.bbs) + 1
              merge_bb == Len(cond_val.h.bbs) + 2
              h1 == generate(cond_val.h)
              h2 == create_block(h1, <<"%then", cond_val.h.counter>>)
              h3 == create_block(h2, <<"%merge", cond_val.h.counter>>)
              h4 == build(h3, cond_val.e, BranchV(cond_val.val, then_bb, merge_bb))
          IN  /\ fe_h' = h4
              /\ fe_envs' = Append([fe_envs EXCEPT ![FeTop.env] = cond_val.e],
                                   switch_bb(cond_val.e, then_bb))
              /\ fe_stack' =
                    FeCallers \o
                    <<Waiting(FeTop, "then", fe_envs[FeTop.env], Len(fe_envs) + 1,
                              <<then_bb, merge_bb>>),
                      Frame("call", Len(fe_envs) + 1, FeTop.s.t, <<>>)>>
              /\ fe_pc' = FeGoOn(h4)
    /\ fe_last' = FeDid("enter")
    /\ UNCHANGED <<fe_f, notFe>>

\* Stmt::If, lines 233-240: the jump that ends the then part, and
\* enter_bb(merge_bb).
FeIfLeave ==
    /\ FeAt("then")
    /\ fe_h' = build(fe_h, fe_envs[FeTop.own], JumpV(FeTop.bbs[2]))
    /\ fe_envs' = [SubSeq(fe_envs, 1, FeTop.own - 1)
                     EXCEPT ![FeTop.env] = enter_bb(@, FeTop.bbs[2])]
    /\ fe_stack' = FeCallers
    /\ fe_last' = FeDid("leave")
    /\ UNCHANGED <<fe_pc, fe_f, notFe>>

\* Stmt::IfElse, lines 242-254
FeIfElseEnter ==
    /\ FeCalled({"IfElse"})
    /\ \E cond_val \in {expr_generate_ir(fe_h, fe_envs[FeTop.env], FeTop.s.c)} :
          LET then_bb == Len(cond_val.h.bbs) + 1
              else_bb == Len(cond_val.h.bbs) + 2
              merge_bb == Len(cond_val.h.bbs) + 3
              g1 == generate(cond_val.h)
              g2 == create_block(g1, <<"%then", cond_val.h.counter>>)
              g3 == create_block(g2, <<"%else", cond_val.h.counter>>)
              g4 == create_block(g3, <<"%merge", cond_val.h.counter>>)
              g5 == build(g4, cond_val.e, BranchV(cond_val.val, then_bb, else_bb))
          IN  /\ fe_h' = g5
              /\ fe_envs' = Append([fe_envs EXCEPT ![FeTop.env] = cond_val.e],
                                   switch_bb(cond_val.e, then_bb))
              /\ fe_stack' =
                    FeCallers \o
                    <<Waiting(FeTop, "if_then", fe_envs[FeTop.env], Len(fe_envs) + 1,
                              <<then_bb, else_bb, merge_bb>>),
                      Frame("call", Len(fe_envs) + 1, FeTop.s.t, <<>>)>>
              /\ fe_pc' = FeGoOn(g5)
    /\ fe_last' = FeDid("enter")
    /\ UNCHANGED <<fe_f, notFe>>

\* Stmt::IfElse, lines 255-261: the jump that ends the then part, and the
\* call of else_stmt in else_env (then_env is used no more).
FeIfElseElse ==
    /\ FeAt("if_then")
    /\ fe_h' = build(fe_h, fe_envs[FeTop.own], JumpV(FeTop.bbs[3]))
    /\ fe_envs' = [fe_envs EXCEPT ![FeTop.own] = switch_bb(fe_envs[FeTop.env], FeTop.bbs[2])]
    /\ fe_stack' = FeCallers \o <<[FeTop EXCEPT !.at = "if_else"],
                                  Frame("call", FeTop.own, FeTop.s.f, <<>>)>>
    /\ fe_last' = FeDid("else")
    /\ UNCHANGED <<fe_pc, fe_f, notFe>>

\* Stmt::IfElse, lines 262-268
FeIfElseLeave ==
    /\ FeAt("if_else")
    /\ fe_h' = build(fe_h, fe_envs[FeTop.own], JumpV(FeTop.bbs[3]))
    /\ fe_envs' = [SubSeq(fe_envs, 1, FeTop.own - 1)
                     EXCEPT ![FeTop.env] = enter_bb(@, FeTop.bbs[3])]
    /\ fe_stack' = FeCallers
    /\ fe_last' = FeDid("leave")
    /\ UNCHANGED <<fe_pc, fe_f, notFe>>

\* Stmt::While, lines 270-288: the blocks, the push on env.while_stack,
\* the jump to the entry block, the condition and the branch in entry_env,
\* and the call of the body in body_env (entry_env is used no more).
FeWhileEnter ==
    /\ FeCalled({"While"})
    /\ LET entry_bb == Len(fe_h.bbs) + 1
           body_bb == Len(fe_h.bbs) + 2
           end_bb == Len(fe_h.bbs) + 3
           w1 == generate(fe_h)
           w2 == create_block(w1, <<"%entry", fe_h.counter>>)
           w3 == create_block(w2, <<"%body", fe_h.counter>>)
           w4 == create_block(w3, <<"%end", fe_h.counter>>)
           pushed == [fe_envs[FeTop.env] EXCEPT
                        !.while_stack = Append(@, <<entry_bb, end_bb>>)]
           w5 == build(w4, pushed, JumpV(entry_bb))
       IN  \E cond_val \in {expr_generate_ir(w5, switch_bb(pushed, entry_bb), FeTop.s.c)} :
              /\ fe_h' = build(cond_val.h, cond_val.e,
                               BranchV(cond_val.val, body_bb, end_bb))
              /\ fe_envs' = Append([fe_envs EXCEPT ![FeTop.env] = pushed],
                                   switch_bb(cond_val.e, body_bb))
              /\ fe_stack' =
                    FeCallers \o
                    <<Waiting(FeTop, "body", fe_envs[FeTop.env], Len(fe_envs) + 1,
                              <<entry_bb, body_bb, end_bb>>),
                      Frame("call", Len(fe_envs) + 1, FeTop.s.s, <<>>)>>
              /\ fe_pc' = FeGoOn(cond_val.h)
    /\ fe_last' = FeDid("enter")
    /\ UNCHANGED <<fe_f, notFe>>

\* Stmt::While, lines 289-297: the jump back, enter_bb(end_bb) and the pop.
FeWhileLeave ==
    /\ FeAt("body")
    /\ fe_h' = build(fe_h, fe_envs[FeTop.own], JumpV(FeTop.bbs[1]))
    /\ fe_envs' = [SubSeq(fe_envs, 1, FeTop.own - 1)
                     EXCEPT ![FeTop.env] =
                        [enter_bb(@, FeTop.bbs[3]) EXCEPT
                           !.while_stack = SubSeq(@, 1, Len(@) - 1)]]
    /\ fe_stack' = FeCallers
    /\ fe_last' = FeDid("leave")
    /\ UNCHANGED <<fe_pc, fe_f, notFe>>

FeNext ==
    \/ FeFuncDefEnter \/ FeFuncDefLeave \/ FeBlockItem \/ FeBlockEnd
    \/ FeDecl \/ FeAssign \/ FeBreak \/ FeContinue
    \/ FeBlockEnter \/ FeBlockLeave
    \/ FeIfEnter \/ FeIfLeave
    \/ FeIfElseEnter \/ FeIfElseElse \/ FeIfElseLeave
    \/ FeWhileEnter \/ FeWhileLeave

SpecFe == FeInit /\ [][FeNext]_vars

\* Lowered in steps, a function comes out as func_def_generate_ir gives it.
FeAgrees ==
    fe_pc \in {"done", "rejected"} => fe_h = func_def_generate_ir(fe_f)

\* The loops whose body the call on top of the stack is in, outermost first
\* (positions in fe_stack).
FeLoops == {i \in 1..Len(fe_stack) : fe_stack[i].at = "body"}
FeInnermostLoop == fe_stack[CHOOSE i \in FeLoops : \A j \in FeLoops : j <= i]

\* The last step added nothing to the program.
FeNothingEmitted ==
    fe_h.values = fe_last.h.values /\ fe_h.bbs = fe_last.h.bbs

\* The last step added the instruction inst, and only it, at the end of the
\* block its environment was in.
FeEmittedOnly(inst) ==
    /\ fe_h.nv = fe_last.h.nv + 1
    /\ fe_h.values = (fe_h.nv :> inst) @@ fe_last.h.values
    /\ fe_h.bbs = [fe_last.h.bbs EXCEPT ![fe_last.e.cur].insts = Append(@, fe_h.nv)]

\* C19: a break in the body of a while loop is lowered to one Jump to the
\* end block of the innermost enclosing loop and a continue to one Jump to
\* that loop's entry block; outside every loop a break is refused with
\* BreakOutsideOfLoop and a continue with ContinueOutsideOfLoop, and no
\* instruction is emitted.
C19_BreakContinueTargets ==
    fe_last.op \in {"break", "continue"} =>
        IF FeLoops = {}
        THEN /\ fe_h.err = (IF fe_last.op = "break" THEN "BreakOutsideOfLoop"
                            ELSE "ContinueOutsideOfLoop")
             /\ FeNothingEmitted
        ELSE /\ Ok(fe_h)
             /\ FeEmittedOnly(JumpV(IF fe_last.op = "break" THEN FeInnermostLoop.bbs[3]
                                    ELSE FeInnermostLoop.bbs[1]))

\* A break in the inner of two loops has jumped to the inner loop's end
\* block, which is not the outer loop's.
C19_Witness ==
    /\ fe_pc = "lowering" /\ fe_last.op = "break"
    /\ Cardinality(FeLoops) = 2
    /\ fe_h.values[fe_h.nv] = JumpV(FeInnermostLoop.bbs[3])
    /\ \E i \in FeLoops : fe_stack[i].bbs[3] # FeInnermostLoop.bbs[3]

\* The statements on the stack that wait for a part of themselves: the
\* constructs the call on top of the stack is inside (positions in fe_stack).
FeOpenConstructs ==
    {i \in 1..Len(fe_stack) : fe_stack[i].at \in {"block", "then", "if_then", "if_else", "body"}}

\* The symbol tables between scope (included) and table (excluded) on the way
\* to the root: for a statement inside a construct, the tables made inside
\* the construct that the statement sees.
FeTablesInside(h, scope, table) ==
    ({scope} \cup Ancestors(h, scope)) \ ({table} \cup Ancestors(h, table))

\* The tables made since there were n of them.
FeTablesSince(h, n) == (n + 1)..Len(h.scopes)

\* C16: when an if, an if/else, a while or a block has been lowered, the
\* enclosing environment has the table it had before and every name
\* resolves as it did before the construct, so no variable declared inside
\* is returned by lookup there; and an assignment inside a construct to a
\* name that no table made inside the construct binds resolves to the
\* binding the enclosing scope had, and stores to that variable.
C16_ScopeIsolation ==
    /\ fe_last.op = "leave" =>
          LET table == fe_envs[fe_last.env].symbol_table
          IN  /\ table = fe_last.table
              /\ FeView(fe_h, table) = fe_last.seen
              /\ \A sc \in FeTablesSince(fe_h, fe_last.scopes) :
                    \A n \in DOMAIN fe_h.scopes[sc].entries :
                       fe_h.scopes[sc].entries[n].t = "Var"
                       => lookup(fe_h, table, n) # fe_h.scopes[sc].entries[n]
    /\ fe_last.op = "assign" =>
          \A i \in FeOpenConstructs :
             LET outer == fe_stack[i]
                 ident == fe_last.s.x
                 inside == FeTablesInside(fe_last.h, fe_last.e.symbol_table, outer.table)
             IN  (\A sc \in inside : ident \notin DOMAIN fe_last.h.scopes[sc].entries)
                 => /\ lookup(fe_last.h, fe_last.e.symbol_table, ident) = outer.seen[ident]
                    /\ Ok(fe_h) => fe_h.values[fe_h.nv].dest = outer.seen[ident].v

\* A while loop has been left whose body, a block, declared y and assigned
\* to the x of the enclosing scope: y is unbound after the loop as it was
\* before, and the store went to the outer x.
C16_Witness ==
    /\ fe_pc = "lowering" /\ fe_last.op = "leave" /\ fe_last.s.k = "While"
    /\ \E sc \in FeTablesSince(fe_h, fe_last.scopes) : "y" \in DOMAIN fe_h.scopes[sc].entries
    /\ fe_last.seen["y"] = NotFound
    /\ lookup(fe_h, fe_envs[fe_last.env].symbol_table, "y") = NotFound
    /\ fe_last.seen["x"].t = "Var"
    /\ \E v \in DOMAIN fe_h.values :
          fe_h.values[v].kind = "store" /\ fe_h.values[v].dest = fe_last.seen["x"].v

\* The assignment just lowered: the entry of its lval and the lowering of
\* its expression, both in the state the statement began in.
FeLVal == lookup(fe_last.h, fe_last.e.symbol_table, fe_last.s.x)
FeValue == expr_generate_ir(fe_last.h, fe_last.e, fe_last.s.e)
FeStores(h) == {v \in DOMAIN h.values : h.values[v].kind = "store"}

\* After the expression's instructions the statement added Store(value,
\* slot), and only it, to the block the expression ended in.
FeStored(val, slot) ==
    /\ Ok(fe_h)
    /\ fe_h.nv = val.h.nv + 1
    /\ fe_h.values = (fe_h.nv :> StoreV(val.val, slot)) @@ val.h.values
    /\ fe_h.bbs = [val.h.bbs EXCEPT ![val.e.cur].insts = Append(@, fe_h.nv)]

\* The statement failed with err and added nothing to what the expression
\* had emitted.
FeRefused(val, err) ==
    fe_h.err = err /\ fe_h.values = val.h.values /\ fe_h.bbs = val.h.bbs

\* C20: an assignment whose expression lowers without error emits, after
\* the expression's instructions, exactly one Store(value, slot) if its
\* lval is bound as Var, fails with InvalidAssignmentToConst if the lval is
\* a Const or a Func and with DefinitionNotFoundForIdentifier if it has no
\* binding, and in the failing cases adds no Store of its own; an
\* assignment whose expression fails to lower fails with the expression's
\* error, whatever its lval is, and adds nothing to what the expression
\* emitted.
C20_Assign ==
    fe_last.op = "assign" =>
       \E val \in {FeValue} :
          IF ~Ok(val.h) THEN fe_h = val.h
          ELSE CASE FeLVal.t = "Var" -> FeStored(val, FeLVal.v)
                 [] FeLVal.t \in {"Const", "Func"} ->
                        FeRefused(val, "InvalidAssignmentToConst")
                 [] FeLVal.t = "None" ->
                        FeRefused(val, "DefinitionNotFoundForIdentifier")

\* C20 as stated: the error is decided by the lval alone, and a failing
\* assignment leaves no Store at all in the program.
C20_AsStated ==
    fe_last.op = "assign" =>
       \E val \in {FeValue} :
          CASE FeLVal.t = "Var" -> Ok(val.h) => FeStored(val, FeLVal.v)
            [] FeLVal.t \in {"Const", "Func"} ->
                   /\ fe_h.err = "InvalidAssignmentToConst"
                   /\ FeStores(fe_h) = FeStores(fe_last.h)
            [] FeLVal.t = "None" ->
                   /\ fe_h.err = "DefinitionNotFoundForIdentifier"
                   /\ FeStores(fe_h) = FeStores(fe_last.h)

\* `x = getint() && getint()` has been lowered for a variable x: the last
\* value is the store of the expression's value to x's slot, and the
\* expression has stores of its own before it.
C20_Witness ==
    /\ fe_pc = "lowering" /\ fe_last.op = "assign"
    /\ fe_last.s = Assign("x", Land(Call("getint", <<>>), Call("getint", <<>>)))
    /\ FeLVal.t = "Var"
    /\ fe_h.values[fe_h.nv] = StoreV(FeValue.val, FeLVal.v)
    /\ Cardinality(FeStores(fe_h) \ FeStores(fe_last.h)) > 1

(***************************************************************************)
(* The text emitted for a compilation unit, and the processor running it:  *)
(* backend/generate_asm.rs (Program::generate, FunctionData::generate,     *)
(* generate_value) as far as labels, jumps and returns go, and             *)
(* backend/asm.rs (AsmGlobal::emit).  A label is the sequence of its       *)
(* pieces, as format! writes them: "func_" then the digits of the counter. *)
(* Of the instructions emitted for a value those that neither jump nor     *)
(* call nor set a0 are kept as one "data" instruction.                     *)
(***************************************************************************)
\* The pieces of an identifier of the source.
NamePieces(ident) == IF ident = "func_1" THEN <<"func_", "1">> ELSE <<ident>>

\* func_data.name()[1..]
asm_function_label(fd) == NamePieces(fd.name[2])

\* lookup_name with the name as format! writes it; e is name_map and the
\* counter of the name generator the functions share.
lookup_name_text(e, b) ==
    IF b \in DOMAIN e.name_map THEN [name |-> e.name_map[b], env |-> e]
    ELSE The({ [name |-> g.name,
                env |-> [e EXCEPT !.name_map = (b :> g.name) @@ @,
                                  !.name_counter = g.counter]]
               : g \in {name_generator_generate(e.name_counter, <<"func_">>)} })

\* generate_value on the instructions of a block: the instructions, whether
\* is_exit was set, the environment afterwards.
RECURSIVE emit_values(_, _, _, _)
emit_values(fd, insts, e0, out0) ==
    IF insts = <<>> THEN [instructions |-> out0.instructions, is_exit |-> out0.is_exit,
                          env |-> e0]
    ELSE The({
         LET d == fd.values[Head(insts)]
             more(e1, new, exit) ==
                 emit_values(fd, Tail(insts), e1,
                             [instructions |-> out.instructions \o new,
                              is_exit |-> out.is_exit \/ exit])
         IN  CASE d.kind = "return" ->
                    more(e, IF d.value = 0 THEN <<>> ELSE <<Mv("a0", "t")>>, TRUE)
               [] d.kind = "branch" ->
                    The({ The({ more(f.env, <<Bnez("t", t.name), J(f.name)>>, FALSE)
                                : f \in {lookup_name_text(t.env, d.false_bb)} })
                          : t \in {lookup_name_text(e, d.true_bb)} })
               [] d.kind = "jump" ->
                    The({ more(t.env, <<J(t.name)>>, FALSE)
                          : t \in {lookup_name_text(e, d.target)} })
               [] d.kind = "call" ->
                    more(e, <<CallI(NamePieces(d.callee))>>, FALSE)
               [] d.kind = "alloc" -> more(e, <<>>, FALSE)
               [] OTHER -> more(e, <<[op |-> "data"]>>, FALSE)
         : e \in {e0}, out \in {out0} })

\* FunctionData::generate, lines 142-161: the blocks of the layout in order.
RECURSIVE emit_blocks(_, _, _, _)
emit_blocks(fd, b, e0, blocks) ==
    IF b > Len(fd.bbs) THEN [basic_blocks |-> blocks, env |-> e0]
    ELSE The({ The({
             emit_blocks(fd, b + 1, body.env,
                 Append(blocks,
                        [label |-> IF b = 1 THEN asm_function_label(fd) ELSE l.name,
                         is_entry |-> b = 1,
                         is_exit |-> body.is_exit,
                         instructions |-> body.instructions]))
             : body \in {emit_values(fd, fd.bbs[b].insts, l.env,
                                     [instructions |-> <<>>, is_exit |-> FALSE])} })
         : l \in {lookup_name_text(e0, b)} })

\* Program::generate, lines 68-93: every function with a new name_map and
\* the name generator of the program.
RECURSIVE emit_functions(_, _, _)
emit_functions(fds, name_counter, out) ==
    IF fds = <<>> THEN out
    ELSE The({ emit_functions(Tail(fds), f.env.name_counter,
                              Append(out, [label |-> asm_function_label(Head(fds)),
                                           basic_blocks |-> f.basic_blocks]))
               : f \in {emit_blocks(Head(fds), 1,
                                    [name_map |-> <<>>, name_counter |-> name_counter],
                                    <<>>)} })

\* The functions compiled: conditions are calls, so that every branch can
\* go either way; main ends in a return, the function after it may not.
EmStatements ==
    LET c == Call("getint", <<>>)
        out == ExprStmt(Call("putint", <<Num(1)>>))
    IN  { Return(Num(1)), out,
          If(c, Return(Num(1))), If(c, out),
          IfElse(c, Return(Num(1)), Return(Num(2))), IfElse(c, out, Return(Num(2))),
          While(c, Return(Num(1))), While(c, Break), While(c, out) }

EmBodies(n) == UNION {[1..k -> EmStatements] : k \in 0..n}

EmPrograms ==
    { << [name |-> "main", ret |-> "int", params |-> <<>>,
          body |-> b1 \o <<Return(Num(0))>>],
         [name |-> n2, ret |-> "int", params |-> <<>>,
          body |-> b2 \o last] >> :
        b1 \in EmBodies(1), b2 \in EmBodies(1), n2 \in {"f", "func_1"},
        last \in {<<>>, <<Return(Num(0))>>} }

EmInit ==
    /\ em_pc = "source"
    /\ em_prog \in EmPrograms
    /\ em_ir = <<>>
    /\ em_asm = <<>>
    /\ em_at = <<>>
    /\ em_hist = <<>>
    /\ LsIdle /\ AsmIdle /\ DceIdle /\ ScIdle /\ CeIdle /\ SymIdle /\ NgIdle /\ RpIdle
    /\ FeIdle /\ FrIdle /\ CmpIdle /\ TpIdle /\ DtIdle

\* main: frontend::generate_ir, Program::generate, emit.  Then one of the
\* functions is called.
EmCompile ==
    /\ em_pc = "source"
    /\ LET hs == [k \in 1..Len(em_prog) |-> func_def_generate_ir(em_prog[k])]
       IN  IF \A k \in 1..Len(hs) : Ok(hs[k])
           THEN LET fds == [k \in 1..Len(hs) |-> FunctionData(em_prog[k], hs[k])]
                IN  /\ em_ir' = fds
                    /\ em_asm' = emit_functions(fds, 0, <<>>)
                    /\ em_pc' = "run"
                    /\ \E f \in 1..Len(hs) : em_at' = [fn |-> f, bb |-> 1, ip |-> 0]
                    /\ em_hist' = [prologues |-> 0, returns |-> 0, epilogues |-> 0,
                                   after_return |-> FALSE]
           ELSE /\ em_pc' = "rejected"
                /\ UNCHANGED <<em_ir, em_asm, em_at, em_hist>>
    /\ UNCHANGED <<em_prog, notEm>>

EmBlock == em_asm[em_at.fn].basic_blocks[em_at.bb]
EmAtInst(ops) ==
    /\ em_pc = "run"
    /\ em_at.ip \in 1..Len(EmBlock.instructions)
    /\ EmBlock.instructions[em_at.ip].op \in ops
EmInst == EmBlock.instructions[em_at.ip]

\* The blocks of the text that carry a label.
EmLabelled(label) ==
    UNION {{<<f, b>> : b \in {c \in 1..Len(em_asm[f].basic_blocks) :
                                   em_asm[f].basic_blocks[c].label = label}} :
           f \in 1..Len(em_asm)}

EmStepped == [em_hist EXCEPT !.after_return = @ \/ em_hist.returns > 0]

\* Control goes to a label: to the one block that carries it.
EmGoto(label) ==
    IF Cardinality(EmLabelled(label)) = 1
    THEN /\ em_at' = The({[fn |-> at[1], bb |-> at[2], ip |-> 0] : at \in EmLabelled(label)})
         /\ em_pc' = em_pc
    ELSE /\ em_at' = em_at
         /\ em_pc' = "bad label"

\* The head of a block (asm.rs 152-158): the prologue in an entry block.
EmEnterBlock ==
    /\ em_pc = "run"
    /\ em_at.ip = 0
    /\ em_at' = [em_at EXCEPT !.ip = 1]
    /\ em_hist' = IF EmBlock.is_entry
                  THEN [em_hist EXCEPT !.prologues = IF @ < 2 THEN @ + 1 ELSE @,
                                       !.after_return = @ \/ em_hist.returns > 0]
                  ELSE em_hist
    /\ UNCHANGED <<em_pc, em_prog, em_ir, em_asm, notEm>>

\* mv a0, rs: the instruction of a Return.
EmMvA0 ==
    /\ EmAtInst({"mv"})
    /\ em_at' = [em_at EXCEPT !.ip = @ + 1]
    /\ em_hist' = [EmStepped EXCEPT !.returns = 1]
    /\ UNCHANGED <<em_pc, em_prog, em_ir, em_asm, notEm>>

EmData ==
    /\ EmAtInst({"data", "call"})
    /\ em_at' = [em_at EXCEPT !.ip = @ + 1]
    /\ em_hist' = EmStepped
    /\ UNCHANGED <<em_pc, em_prog, em_ir, em_asm, notEm>>

\* bnez: the register holds what a call returned, zero or not.
EmBnez ==
    /\ EmAtInst({"bnez"})
    /\ \/ EmGoto(EmInst.label)
       \/ em_at' = [em_at EXCEPT !.ip = @ + 1] /\ em_pc' = em_pc
    /\ em_hist' = EmStepped
    /\ UNCHANGED <<em_prog, em_ir, em_asm, notEm>>

EmJ ==
    /\ EmAtInst({"j"})
    /\ EmGoto(EmInst.label)
    /\ em_hist' = EmStepped
    /\ UNCHANGED <<em_prog, em_ir, em_asm, notEm>>

\* The end of an exit block (asm.rs 164-170): the epilogue, which returns.
EmEpilogue ==
    /\ em_pc = "run"
    /\ em_at.ip = Len(EmBlock.instructions) + 1
    /\ EmBlock.is_exit
    /\ em_pc' = "returned"
    /\ em_hist' = [em_hist EXCEPT !.epilogues = @ + 1]
    /\ UNCHANGED <<em_at, em_prog, em_ir, em_asm, notEm>>

\* The end of any other block: the text goes on with the next block.
EmFallThrough ==
    /\ em_pc = "run"
    /\ em_at.ip = Len(EmBlock.instructions) + 1
    /\ ~EmBlock.is_exit
    /\ IF em_at.bb < Len(em_asm[em_at.fn].basic_blocks)
       THEN em_at' = [em_at EXCEPT !.bb = @ + 1, !.ip = 0] /\ em_pc' = em_pc
       ELSE IF em_at.fn < Len(em_asm)
       THEN em_at' = [fn |-> em_at.fn + 1, bb |-> 1, ip |-> 0] /\ em_pc' = em_pc
       ELSE em_at' = em_at /\ em_pc' = "fell off the end"
    /\ em_hist' = em_hist
    /\ UNCHANGED <<em_prog, em_ir, em_asm, notEm>>

EmNext ==
    \/ EmCompile
    \/ EmEnterBlock
    \/ EmMvA0
    \/ EmData
    \/ EmBnez
    \/ EmJ
    \/ EmEpilogue
    \/ EmFallThrough

SpecEm == EmInit /\ [][EmNext]_vars

\* The processor executes the next instruction as long as there is one.
SpecEmRunning == SpecEm /\ WF_vars(EmNext)

(***************************************************************************)
(* Claims about the prologue, the epilogue and the labels                  *)
(***************************************************************************)
EmCompiled == em_pc \notin {"source", "rejected"}

EmHasReturn(f, b) ==
    \E k \in 1..Len(em_ir[f].bbs[b].insts) :
        em_ir[f].values[em_ir[f].bbs[b].insts[k]].kind = "return"

\* The prologue is emitted in the first block of the layout only, the
\* epilogue in the blocks that hold a Return only.
EmPrologueEpiloguePlaced ==
    EmCompiled =>
        \A f \in 1..Len(em_asm) :
            /\ Len(em_asm[f].basic_blocks) = Len(em_ir[f].bbs)
            /\ \A b \in 1..Len(em_asm[f].basic_blocks) :
                  /\ em_asm[f].basic_blocks[b].is_entry <=> b = 1
                  /\ em_asm[f].basic_blocks[b].is_exit <=> EmHasReturn(f, b)

\* C22 as stated: the prologue is emitted in exactly one block, the first
\* of the layout, and the epilogue, after the block's own instructions, in
\* every block that holds a Return and in no other; and every path from
\* the function entry that executes a Return executes the prologue once
\* and then the epilogue once.
C22_ReturnReachesEpilogue ==
    /\ []EmPrologueEpiloguePlaced
    /\ (em_pc = "run" /\ em_hist.returns = 1)
          ~> (em_pc = "returned" /\ em_hist.prologues = 1 /\ em_hist.epilogues = 1)

\* The labels the jumps of function f name.
EmTargets(f) ==
    UNION {{em_asm[f].basic_blocks[b].instructions[k].label :
              k \in {j \in 1..Len(em_asm[f].basic_blocks[b].instructions) :
                       em_asm[f].basic_blocks[b].instructions[j].op \in {"bnez", "j"}}} :
           b \in 1..Len(em_asm[f].basic_blocks)}

\* C28 as stated: every label that is the target of an emitted bnez or j
\* is the label of exactly one emitted block, a block of the same function
\* and not its first one, whose label is the function's name.
C28_TargetsAreLabels ==
    EmCompiled =>
        \A f \in 1..Len(em_asm) : \A label \in EmTargets(f) :
            /\ Cardinality(EmLabelled(label)) = 1
            /\ \A at \in EmLabelled(label) : at[1] = f /\ at[2] # 1

(***************************************************************************)
(* One Binary lowered and run: generate_value, lines 219-266, on operands  *)
(* that are Integers or values held in argument registers.                 *)
(***************************************************************************)
ComparisonOps == {"Lt", "Gt", "Le", "Ge", "Eq", "NotEq"}

\* The operand values: the ends of the 32-bit range and the values around 0.
CmpValues == {I32Min, -1, 0, 1, I32Max}

CmpOperands(register) ==
    {[storage |-> Immediate(v), val |-> v] : v \in CmpValues}
    \cup {[storage |-> Register(register), val |-> v] : v \in CmpValues}

CmpInit ==
    /\ cmp_pc = "operands"
    /\ cmp_op \in ComparisonOps
    /\ cmp_lhs \in CmpOperands("a0")
    /\ cmp_rhs \in CmpOperands("a1")
    /\ cmp_avail = new_temp_pool
    /\ cmp_rs = <<>>
    /\ cmp_m = RegWrite(RegWrite(Machine(EntrySp), "a0", IntV(cmp_lhs.val)),
                        "a1", IntV(cmp_rhs.val))
    /\ LsIdle /\ AsmIdle /\ DceIdle /\ ScIdle /\ CeIdle /\ SymIdle /\ NgIdle /\ RpIdle
    /\ FeIdle /\ FrIdle /\ EmIdle /\ TpIdle /\ DtIdle

\* let rs1 = env.load_data(target, lhs), line 225
CmpLoadLhs ==
    /\ cmp_pc = "operands"
    /\ \E o \in load_data(cmp_avail, cmp_lhs.storage) :
          /\ cmp_rs' = <<o.reg>>
          /\ cmp_avail' = o.avail
          /\ cmp_m' = Run(cmp_m, o.insts)
    /\ cmp_pc' = "lhs"
    /\ UNCHANGED <<cmp_op, cmp_lhs, cmp_rhs, notCmp>>

\* let rs2 = env.load_data(target, rhs), line 226
CmpLoadRhs ==
    /\ cmp_pc = "lhs"
    /\ \E o \in load_data(cmp_avail, cmp_rhs.storage) :
          /\ cmp_rs' = Append(cmp_rs, o.reg)
          /\ cmp_avail' = o.avail
          /\ cmp_m' = Run(cmp_m, o.insts)
    /\ cmp_pc' = "rhs"
    /\ UNCHANGED <<cmp_op, cmp_lhs, cmp_rhs, notCmp>>

\* Lines 228-264: rd, the instructions of the operator, rs1 and rs2 freed.
CmpBinary ==
    /\ cmp_pc = "rhs"
    /\ \E rd \in pool_next(cmp_avail) :
          /\ cmp_rs' = Append(cmp_rs, rd)
          /\ cmp_avail' = pool_release(pool_release(cmp_avail \ {rd}, cmp_rs[1]),
                                       cmp_rs[2])
          /\ cmp_m' = Run(cmp_m, binary_instructions(cmp_op, rd, cmp_rs[1], cmp_rs[2]))
    /\ cmp_pc' = "done"
    /\ UNCHANGED <<cmp_op, cmp_lhs, cmp_rhs, notCmp>>

CmpNext ==
    \/ CmpLoadLhs
    \/ CmpLoadRhs
    \/ CmpBinary

SpecCmp == CmpInit /\ [][CmpNext]_vars

\* Whether the comparison holds of the two numbers.
CmpHolds(op, l, r) ==
    CASE op = "Lt" -> l < r
      [] op = "Gt" -> l > r
      [] op = "Le" -> l <= r
      [] op = "Ge" -> l >= r
      [] op = "Eq" -> l = r
      [] op = "NotEq" -> l # r

\* C23: for 32-bit signed operands l and r the instructions emitted for a
\* comparison operator leave in the result register 1 if the comparison
\* holds and 0 otherwise, also where an operand is x0 (the immediate 0).
C23_ComparisonResult ==
    cmp_pc = "done" =>
        RegRead(cmp_m, cmp_rs[3]) =
            IntV(IF CmpHolds(cmp_op, cmp_lhs.val, cmp_rhs.val) THEN 1 ELSE 0)

\* `>=` has been lowered with its left operand x0 and its right operand
\* the least number, held in a temporary: the result is 1.
C23_Witness ==
    /\ cmp_pc = "done"
    /\ cmp_op = "Ge"
    /\ cmp_rs[1] = "x0"
    /\ cmp_rs[2] \in Temps
    /\ cmp_rhs.val = I32Min
    /\ RegRead(cmp_m, cmp_rs[3]) = IntV(1)

(***************************************************************************)
(* The temporaries during the lowering of one instruction: generate_value  *)
(* as the calls it makes on the pool, in order.  A step is                 *)
(*   load_data of an operand (the register it returns is held),            *)
(*   apply_register (rd, held),                                            *)
(*   free_register of the k-th register held,                              *)
(*   store_data of the k-th register held, or of a0 (k = 0), to a storage. *)
(***************************************************************************)
TpLoadData(storage) == [op |-> "load_data", storage |-> storage]
TpApplyRegister == [op |-> "apply_register"]
TpFreeRegister(k) == [op |-> "free_register", k |-> k]
TpStoreData(storage, k) == [op |-> "store_data", storage |-> storage, k |-> k]

\* The steps of generate_value for the instruction.
RECURSIVE TpCallArgs(_, _)
TpCallArgs(args, k) ==
    IF k > Len(args) THEN <<>>
    ELSE <<TpLoadData(args[k]), TpFreeRegister(k)>> \o TpCallArgs(args, k + 1)

TpSteps(inst) ==
    CASE inst.kind = "load" -> <<TpLoadData(inst.src), TpStoreData(inst.self, 1)>>
      [] inst.kind = "store" -> <<TpLoadData(inst.value), TpStoreData(inst.dest, 1)>>
      [] inst.kind = "binary" ->
            <<TpLoadData(inst.lhs), TpLoadData(inst.rhs), TpApplyRegister,
              TpFreeRegister(1), TpFreeRegister(2), TpStoreData(inst.self, 3)>>
      [] inst.kind = "branch" -> <<TpLoadData(inst.cond), TpFreeRegister(1)>>
      [] inst.kind = "jump" -> <<>>
      [] inst.kind = "call" -> TpCallArgs(inst.args, 1) \o <<TpStoreData(inst.self, 0)>>
      [] inst.kind = "return" ->
            IF inst.value = <<>> THEN <<>>
            ELSE <<TpLoadData(inst.value[1]), TpFreeRegister(1)>>

\* The storages of an operand: an Integer, a slot near sp and one beyond
\* the 12-bit offsets, a parameter in its register, a global.
TpOperandStorages ==
    {Immediate(0), Immediate(7), Stack(4), Stack(2 * ImmLimit), Register("a0"),
     Global(GlobalLabel(0))}

\* The storages of a result: a slot (alloc_stack_storage).
TpSlots == {Stack(8), Stack(ImmLimit)}

\* The storages a Store writes to: a slot or a global.
TpDestinations == TpSlots \cup {Global(GlobalLabel(0))}

TpInstructions ==
    {[kind |-> "load", src |-> s, self |-> t] :
        s \in TpSlots \cup {Global(GlobalLabel(0))}, t \in TpSlots}
    \cup {[kind |-> "store", value |-> v, dest |-> d] :
             v \in TpOperandStorages, d \in TpDestinations}
    \cup {[kind |-> "binary", lhs |-> l, rhs |-> r, self |-> t] :
             l \in TpOperandStorages, r \in TpOperandStorages, t \in TpSlots}
    \cup {[kind |-> "branch", cond |-> c] : c \in TpOperandStorages}
    \cup {[kind |-> "jump"]}
    \cup {[kind |-> "call", args |-> a, self |-> t] :
             a \in UNION {[1..n -> TpOperandStorages] : n \in 0..2}, t \in TpSlots}
    \cup {[kind |-> "return", value |-> v] :
             v \in {<<>>} \cup {<<s>> : s \in TpOperandStorages}}

TpInit ==
    /\ tp_pc = "run"
    /\ tp_inst \in TpInstructions
    /\ tp_step = 0
    /\ tp_avail = new_temp_pool
    /\ tp_held = <<>>
    /\ LsIdle /\ AsmIdle /\ DceIdle /\ ScIdle /\ CeIdle /\ SymIdle /\ NgIdle /\ RpIdle
    /\ FeIdle /\ FrIdle /\ EmIdle /\ CmpIdle /\ DtIdle

TpAt(op) ==
    /\ tp_pc = "run"
    /\ tp_step < Len(TpSteps(tp_inst))
    /\ TpSteps(tp_inst)[tp_step + 1].op = op
TpStep == TpSteps(tp_inst)[tp_step + 1]

\* An empty set of outcomes: the pool had no register to give.
TpPanic ==
    /\ tp_pc' = "panic"
    /\ UNCHANGED <<tp_step, tp_avail, tp_held>>

TpLoad ==
    /\ TpAt("load_data")
    /\ LET outs == load_data(tp_avail, TpStep.storage)
       IN  IF outs = {} THEN TpPanic
           ELSE \E o \in outs :
                   /\ tp_avail' = o.avail
                   /\ tp_held' = Append(tp_held, o.reg)
                   /\ tp_step' = tp_step + 1
                   /\ tp_pc' = tp_pc
    /\ UNCHANGED <<tp_inst, notTp>>

TpApply ==
    /\ TpAt("apply_register")
    /\ IF pool_next(tp_avail) = {} THEN TpPanic
       ELSE \E rd \in pool_next(tp_avail) :
               /\ tp_avail' = tp_avail \ {rd}
               /\ tp_held' = Append(tp_held, rd)
               /\ tp_step' = tp_step + 1
               /\ tp_pc' = tp_pc
    /\ UNCHANGED <<tp_inst, notTp>>

TpFree ==
    /\ TpAt("free_register")
    /\ tp_avail' = pool_release(tp_avail, tp_held[TpStep.k])
    /\ tp_step' = tp_step + 1
    /\ UNCHANGED <<tp_pc, tp_held, tp_inst, notTp>>

TpStore ==
    /\ TpAt("store_data")
    /\ LET outs == store_data(tp_avail, TpStep.storage,
                              IF TpStep.k = 0 THEN "a0" ELSE tp_held[TpStep.k])
       IN  IF outs = {} THEN TpPanic
           ELSE \E o \in outs :
                   /\ tp_avail' = o.avail
                   /\ tp_step' = tp_step + 1
                   /\ tp_pc' = tp_pc
                   /\ tp_held' = tp_held
    /\ UNCHANGED <<tp_inst, notTp>>

\* generate_value returns.
TpReturn ==
    /\ tp_pc = "run"
    /\ tp_step = Len(TpSteps(tp_inst))
    /\ tp_pc' = "done"
    /\ UNCHANGED <<tp_step, tp_avail, tp_held, tp_inst, notTp>>

TpNext ==
    \/ TpLoad
    \/ TpApply
    \/ TpFree
    \/ TpStore
    \/ TpReturn

SpecTp == TpInit /\ [][TpNext]_vars

\* C25: after the lowering of any single instruction all seven
\* temporaries are back in the pool, and within the instruction the pool
\* is never asked for a register while it is empty.
C25_TemporariesReturned ==
    /\ tp_pc = "done" => tp_avail = Temps
    /\ tp_pc # "panic"

\* A Binary has been lowered whose left operand lies beyond the 12-bit
\* offsets, whose right operand is a global and whose slot needs a long
\* offset too.
C25_Witness ==
    /\ tp_pc = "done"
    /\ tp_inst.kind = "binary"
    /\ tp_inst.lhs = Stack(2 * ImmLimit)
    /\ tp_inst.rhs = Global(GlobalLabel(0))
    /\ tp_inst.self = Stack(ImmLimit)
    /\ Cardinality({tp_held[k] : k \in 1..3}) = 3

(***************************************************************************)
(* The loop stack of the front end: functions with loops inside loops,     *)
(* inside blocks and inside ifs, and statements that follow a loop in the  *)
(* body of another, lowered in the steps of the front end above.           *)
(***************************************************************************)
WsInner == {Break, Continue, Assign("x", Num(1))}

WsBodies ==
    WsInner
    \cup {While(Num(1), t) : t \in WsInner}
    \cup {Block(<<While(LVal("x"), t), u>>) : t, u \in WsInner}
    \cup {Block(<<VarDecl("y"), While(Num(1), Break), Continue>>),
          If(Num(1), Break),
          IfElse(LVal("x"), While(Num(1), Continue), Break)}

WsItems ==
    {While(c, s) : c \in {Num(1), LVal("x")}, s \in WsBodies}
    \cup {If(Num(1), While(Num(1), Break)), Break}

WsAfter == {Continue, While(Num(1), Break), Assign("x", Num(2))}

WsPrograms ==
    {[name |-> "main", ret |-> ret, params |-> <<>>,
      body |-> <<VarInit("x", Num(0))>> \o <<t, a>>]
     : ret \in {"int", "void"}, t \in WsItems, a \in WsAfter}

WsInit ==
    /\ fe_pc = "source"
    /\ fe_f \in WsPrograms
    /\ fe_h = <<>> /\ fe_envs = <<>> /\ fe_stack = <<>> /\ fe_last = [op |-> "source"]
    /\ LsIdle /\ AsmIdle /\ DceIdle /\ ScIdle /\ CeIdle /\ SymIdle /\ NgIdle /\ RpIdle /\ FrIdle /\ EmIdle /\ CmpIdle /\ TpIdle /\ DtIdle

SpecWs == WsInit /\ [][FeNext]_vars

\* The (entry, end) pairs of the loops whose positions in fe_stack are in
\* loops, outermost first.
RECURSIVE WsPairs(_)
WsPairs(loops) ==
    IF loops = {} THEN <<>>
    ELSE LET last == CHOOSE i \in loops : \A j \in loops : j <= i
         IN  Append(WsPairs(loops \ {last}),
                    <<fe_stack[last].bbs[1], fe_stack[last].bbs[3]>>)

\* The loops a frame of fe_stack is inside, the frame's own loop included
\* when it is a while that waits for its body.
WsLoopsAt(i) == {j \in 1..i : fe_stack[j].at = "body"}

\* The calls on fe_stack that use the environment n (as the one they were
\* given or as the one they made), and the innermost of them.
WsUsers(n) == {j \in 1..Len(fe_stack) : fe_stack[j].env = n \/ fe_stack[j].own = n}
WsLastUser(n) == CHOOSE i \in WsUsers(n) : \A j \in WsUsers(n) : j <= i

\* C29: the loop stack follows loop nesting.  The environment a statement
\* is lowered in holds the (entry, end) pairs of the loops around it,
\* outermost first, so in the body of a while the top is that loop's pair
\* and outside every loop (at the start of the function too) the stack is
\* empty; every environment in use holds the pairs of the loops around the
\* innermost call that uses it (a while that waits for its body, its own
\* pair too), so that after the while the enclosing environment's stack
\* is what it was before and the statements after an inner loop see the
\* stack of the outer loop.
C29_LoopStackFollowsNesting ==
    (fe_pc = "lowering" /\ fe_stack # <<>>) =>
        /\ fe_envs[FeTop.env].while_stack = WsPairs(FeLoops)
        /\ \A n \in 1..Len(fe_envs) :
               WsUsers(n) # {} => fe_envs[n].while_stack = WsPairs(WsLoopsAt(WsLastUser(n)))
        /\ fe_last.op = "func" => fe_envs[1].while_stack = <<>>
        /\ (fe_last.op = "leave" /\ fe_last.s.k = "While") =>
               /\ fe_last.e.while_stack # <<>>
               /\ fe_envs[fe_last.env].while_stack
                    = SubSeq(fe_last.e.while_stack, 1, Len(fe_last.e.while_stack) - 1)

\* A statement of an outer loop's body that follows an inner loop is about
\* to be lowered: the inner loop has been left and the stack holds the
\* outer loop's pair alone.
C29_Witness ==
    /\ fe_pc = "lowering" /\ fe_stack # <<>>
    /\ FeTop.at = "call" /\ FeTop.s.k \in {"Break", "Continue", "Assign"}
    /\ Cardinality(FeLoops) = 1
    /\ fe_last.op = "item"
    /\ \E j \in 1..Len(fe_h.bbs) : j > FeInnermostLoop.bbs[3]
    /\ fe_envs[FeTop.env].while_stack
         = <<<<FeInnermostLoop.bbs[1], FeInnermostLoop.bbs[3]>>>>

(***************************************************************************)
(* backend/generate_asm.rs, Binary (lines 219-266), lowered twice.  Each   *)
(* lowering starts from a new pool (new_temp_pool); the register the pool  *)
(* gives is the first of a HashSet's iteration (register.rs 79-86), whose  *)
(* order follows the keys the set's hasher was made with, new for every    *)
(* set and every run.                                                      *)
(***************************************************************************)
\* The instruction sequences generate_value can emit for the Binary.
generate_value_binary(avail, inst) ==
    UNION {UNION {UNION {
        {l1.insts \o l2.insts \o binary_instructions(inst.op, rd, l1.reg, l2.reg)
            \o s.insts :
            s \in store_data(pool_release(pool_release(l2.avail \ {rd}, l1.reg), l2.reg),
                             inst.self, rd)} :
        rd \in pool_next(l2.avail)} :
        l2 \in load_data(l1.avail, inst.rhs)} :
        l1 \in load_data(avail, inst.lhs)}

DtInstructions ==
    {[op |-> op, lhs |-> l, rhs |-> r, self |-> Stack(8)] :
        op \in {"Add", "Le"},
        l \in {Immediate(0), Immediate(7), Stack(4), Register("a0")},
        r \in {Immediate(0), Register("a1")}}

DtInit ==
    /\ dt_pc = "first"
    /\ dt_inst \in DtInstructions
    /\ dt_first = <<>> /\ dt_second = <<>>
    /\ LsIdle /\ AsmIdle /\ DceIdle /\ ScIdle /\ CeIdle /\ SymIdle /\ NgIdle /\ RpIdle
    /\ FeIdle /\ FrIdle /\ EmIdle /\ CmpIdle /\ TpIdle

\* The first lowering of the instruction.
DtFirst ==
    /\ dt_pc = "first"
    /\ dt_first' \in generate_value_binary(new_temp_pool, dt_inst)
    /\ dt_pc' = "second"
    /\ UNCHANGED <<dt_inst, dt_second, notDt>>

\* The second lowering of the same instruction.
DtSecond ==
    /\ dt_pc = "second"
    /\ dt_second' \in generate_value_binary(new_temp_pool, dt_inst)
    /\ dt_pc' = "done"
    /\ UNCHANGED <<dt_inst, dt_first, notDt>>

DtNext == DtFirst \/ DtSecond

SpecDt == DtInit /\ [][DtNext]_vars

\* C30 as stated: lowering the same instruction twice gives the same
\* instruction sequence, the same temporary at every acquisition included.
C30_SameInstructions ==
    dt_pc = "done" => dt_first = dt_second

\* The two lowerings differ in the names of temporaries alone.
DtSameButRegisters ==
    dt_pc = "done" => BlankedAll(dt_first) = BlankedAll(dt_second)
====
